---- MODULE Spec2Model ----
(***************************************************************************)
(* Model of the Smartsheet attachment synchroniser                         *)
(*   src/src/attachment_sync.py  (class AttachmentSyncer)                  *)
(*   src/main.py                 (entry point, exit code policy)           *)
(*                                                                         *)
(* One state machine, one control location (pc) per code position.  The    *)
(* component specifications (SpecKey, SpecRowMap, SpecRetry, SpecCopy)     *)
(* start the same actions from the entry of one method with its arguments  *)
(* drawn from bounded sets; Spec runs the whole program from main().       *)
(***************************************************************************)
EXTENDS Integers, Sequences, FiniteSets, TLC

VARIABLES
    pc,          \* control location
    ek_value,    \* _extract_match_key: argument
    ek_ret,      \* _extract_match_key: what the call produced
    max_retries, \* AttachmentSyncer.max_retries
    retry_delay, \* AttachmentSyncer.retry_delay (in units of the smallest delay)
    r_op,        \* _retry_operation: the unit of work being run
    r_attempt,   \* _retry_operation: loop variable attempt (0 before the loop)
    r_delay,     \* _retry_operation: local variable delay
    r_last,      \* _retry_operation: local variable last_exception
    r_sleeps,    \* durations passed to time.sleep by this call, in order
    r_outcomes,  \* outcome of each execution of the unit of work by this call
    r_ret,       \* what _retry_operation gave its caller
    bm_side,     \* _build_row_map: which call this is (source, target, alone)
    bm_rows,     \* _build_row_map: argument rows
    bm_col,      \* _build_row_map: argument match_column_id
    bm_i,        \* _build_row_map: number of rows the loop has processed
    row_map,     \* _build_row_map: local dict row_map, in insertion order
    bm_warnings, \* duplicate-key warnings logged by this call
    bm_ret,      \* what _build_row_map gave its caller
    stats,       \* AttachmentSyncer.stats
    tgt_att,     \* remote: the attachments of each target row
    staged,      \* local staging folder: the files that exist in it
    uploads,     \* attach_file_to_row calls of this run that succeeded, in order
    source_attachment_cache,  \* row id -> FILE attachment metadata
    target_attachment_cache,  \* row id -> FILE attachment metadata
    c_caller,    \* copy_attachments_to_row: called alone or by sync_attachments
    c_src,       \* copy_attachments_to_row: argument source_row_id
    c_tgt,       \* copy_attachments_to_row: argument target_row_id
    file_attachments, \* copy_attachments_to_row: local file_attachments
    existing_names,   \* copy_attachments_to_row: local existing_names
    c_j,         \* number of attachments the loop of line 340 has taken
    copied_count,     \* copy_attachments_to_row: local copied_count
    file_path,   \* copy_attachments_to_row: local file_path
    download_url,     \* copy_attachments_to_row: local download_url
    c_ret,       \* what copy_attachments_to_row gave its caller
    c_stats0,    \* stats when copy_attachments_to_row was entered
    requests,    \* requests sent by this call for the attachment it is processing
    ops,         \* the operations those requests asked for, in the order they were sent
    c_failed,    \* some fetch, URL check, download or upload of this call failed
    outcomes,    \* the outcome of each attachment this call has processed, in order
    run,         \* number of times main() was started
    src_rows,    \* remote: rows of the source sheet
    tgt_rows,    \* remote: rows of the target sheet
    src_att,     \* remote: the attachments of each source row
    source_map,  \* sync_attachments: local source_map
    target_map,  \* sync_attachments: local target_map
    matched_source_row_ids,   \* sync_attachments: local
    matched_target_row_ids,   \* sync_attachments: local
    cb_side,     \* _build_attachment_cache: which call this is (source, target)
    cb_i,        \* _build_attachment_cache: number of row ids the loop has taken
    attachment_cache,  \* _build_attachment_cache: local attachment_cache
    list_calls,  \* list_row_attachments calls of this run, in order
    s_i,         \* number of source_map entries the loop of line 475 has taken
    copy_calls,  \* (source row, target row) of each copy_attachments_to_row call
    fatal_exc,   \* the exception that escaped the body of sync_attachments
    s_ret,       \* what sync_attachments gave main()
    s_results,   \* what each sync_attachments call on this AttachmentSyncer gave its caller
    exit_code    \* the code main() passed to sys.exit

keyVars == <<ek_value, ek_ret>>
cfgVars == <<max_retries, retry_delay>>
retryVars == <<r_op, r_attempt, r_delay, r_last, r_sleeps, r_outcomes, r_ret>>
mapVars == <<bm_side, bm_rows, bm_col, bm_i, row_map, bm_warnings, bm_ret>>
envVars == <<tgt_att, staged, uploads>>
cacheVars == <<source_attachment_cache, target_attachment_cache>>
copyVars == <<c_caller, c_src, c_tgt, file_attachments, existing_names, c_j, copied_count,
              file_path, download_url, c_ret, c_stats0, requests, ops, c_failed, outcomes>>
remoteVars == <<src_rows, tgt_rows, src_att>>
syncVars == <<run, source_map, target_map, matched_source_row_ids, matched_target_row_ids,
              cb_side, cb_i, attachment_cache, list_calls, s_i, copy_calls, fatal_exc,
              s_ret, s_results, exit_code>>

vars == <<pc, keyVars, cfgVars, retryVars, mapVars, stats, envVars, cacheVars, copyVars,
          remoteVars, syncVars>>

(***************************************************************************)
(* Bounds of the model                                                     *)
(***************************************************************************)
MaxStrLen == 4          \* longest string cell value enumerated by SpecKey
MaxIntPart == 2         \* largest magnitude of a numeric cell value
NegRetries == 1         \* max_retries given to the constructor is at least -NegRetries
MaxRetries == 3         \* largest max_retries given to the constructor
MaxDelay == 2           \* largest retry_delay given to the constructor
MaxRows == 3            \* most rows of a sheet given to _build_row_map alone
MaxAtt == 2             \* most FILE attachments cached for one source row
MaxCopyRetries == 2     \* largest max_retries when copy_attachments_to_row runs alone
MaxSyncRows == 2        \* most rows of a sheet in a run of the whole program
MaxSyncAtt == 2         \* most attachments on the source sheet in a run of the program
MaxRuns == 2            \* number of times the program is run
MaxCalls == 2           \* most sync_attachments calls on one AttachmentSyncer
MaxLiveRetries == 2     \* largest max_retries in the runs checked for termination
MaxExitSynced == 12     \* largest attachments_synced handed to the exit logic of main()
MaxExitSkipped == 2     \* largest attachments_skipped handed to the exit logic of main()
MaxExitErrors == 2      \* largest errors handed to the exit logic of main()

(***************************************************************************)
(* Cell values.  A Smartsheet cell value is untyped: None, bool, int,      *)
(* float, str (or anything else).  Strings are sequences of characters.    *)
(***************************************************************************)
Whitespace == {" "}
Digits == {"0", "1", "2"}
Alphabet == Whitespace \cup Digits \cup {"-", ".", "a", "i", "n", "f"}

StrOfLen(n) == [1..n -> Alphabet]
Strings == UNION {StrOfLen(n) : n \in 0..MaxStrLen}

NoneValue == [t |-> "none"]
IntValue(n) == [t |-> "int", v |-> n]
BoolValue(b) == [t |-> "bool", b |-> b]
\* a float: class fin/inf/nan, sign, integral part, whether a fraction remains
FloatValue(cls, neg, ip, fp) == [t |-> "float", cls |-> cls, neg |-> neg, ip |-> ip, fp |-> fp]
StrValue(s) == [t |-> "str", s |-> s]
OtherValue == [t |-> "other"]

FiniteFloats == {FloatValue("fin", neg, ip, fp) : neg \in BOOLEAN, ip \in 0..MaxIntPart, fp \in BOOLEAN}
SpecialFloats == {FloatValue(cls, neg, 0, FALSE) : cls \in {"inf", "nan"}, neg \in BOOLEAN}
NumericValues == {IntValue(n) : n \in -MaxIntPart..MaxIntPart} \cup FiniteFloats \cup SpecialFloats
AllValues == {NoneValue, OtherValue} \cup {BoolValue(b) : b \in BOOLEAN} \cup NumericValues
                \cup {StrValue(s) : s \in Strings}

(***************************************************************************)
(* str.strip(), float(str) and int(float) as Python computes them          *)
(***************************************************************************)
RECURSIVE LStrip(_)
LStrip(s) == IF s # <<>> /\ Head(s) \in Whitespace THEN LStrip(Tail(s)) ELSE s

RECURSIVE RStrip(_)
RStrip(s) == IF s # <<>> /\ s[Len(s)] \in Whitespace THEN RStrip(SubSeq(s, 1, Len(s) - 1)) ELSE s

Strip(s) == RStrip(LStrip(s))

DigitVal(c) == IF c = "0" THEN 0 ELSE IF c = "1" THEN 1 ELSE 2

AllDigits(s) == \A i \in 1..Len(s) : s[i] \in Digits

RECURSIVE DecimalVal(_)
DecimalVal(s) == IF s = <<>> THEN 0 ELSE 10 * DecimalVal(SubSeq(s, 1, Len(s) - 1)) + DigitVal(s[Len(s)])

DotPositions(s) == {i \in 1..Len(s) : s[i] = "."}

NotAFloat == [ok |-> FALSE, cls |-> "none", neg |-> FALSE, ip |-> 0, fp |-> FALSE]

\* float(body) for an unsigned literal
ParseUnsigned(body, neg) ==
    IF body = <<"i", "n", "f">> THEN [ok |-> TRUE, cls |-> "inf", neg |-> neg, ip |-> 0, fp |-> FALSE]
    ELSE IF body = <<"n", "a", "n">> THEN [ok |-> TRUE, cls |-> "nan", neg |-> neg, ip |-> 0, fp |-> FALSE]
    ELSE IF Cardinality(DotPositions(body)) = 0
         THEN IF body # <<>> /\ AllDigits(body)
              THEN [ok |-> TRUE, cls |-> "fin", neg |-> neg, ip |-> DecimalVal(body), fp |-> FALSE]
              ELSE NotAFloat
    ELSE IF Cardinality(DotPositions(body)) = 1
         THEN LET d == CHOOSE i \in DotPositions(body) : TRUE
                  whole == SubSeq(body, 1, d - 1)
                  frac == SubSeq(body, d + 1, Len(body))
              IN IF AllDigits(whole) /\ AllDigits(frac) /\ Len(whole) + Len(frac) > 0
                 THEN [ok |-> TRUE, cls |-> "fin", neg |-> neg, ip |-> DecimalVal(whole),
                       fp |-> DecimalVal(frac) # 0]
                 ELSE NotAFloat
    ELSE NotAFloat

\* float(cleaned): an optional sign, then the literal
ParseFloat(s) ==
    IF s # <<>> /\ Head(s) = "-" THEN ParseUnsigned(Tail(s), TRUE) ELSE ParseUnsigned(s, FALSE)

KeyResult(n) == [tag |-> "key", key |-> n, warned |-> FALSE, exc |-> "none"]
NoKey == [tag |-> "none", key |-> 0, warned |-> FALSE, exc |-> "none"]
NoKeyWarned == [tag |-> "none", key |-> 0, warned |-> TRUE, exc |-> "none"]
Raised(e) == [tag |-> "raise", key |-> 0, warned |-> FALSE, exc |-> e]

KeyIdle == ek_value = NoneValue /\ ek_ret = NoKey

\* int(x) of a float: truncation toward zero; ValueError on nan (caught by
\* the except clause), OverflowError on an infinity (not caught)
IntOfFloat(cls, neg, ip) ==
    IF cls = "nan" THEN NoKeyWarned
    ELSE IF cls = "inf" THEN Raised("OverflowError")
    ELSE KeyResult(IF neg THEN 0 - ip ELSE ip)

extract_match_key(value) ==
    IF value.t = "none" THEN NoKey
    ELSE IF value.t = "int" THEN KeyResult(value.v)
    ELSE IF value.t = "bool" THEN KeyResult(IF value.b THEN 1 ELSE 0)
    ELSE IF value.t = "float" THEN IntOfFloat(value.cls, value.neg, value.ip)
    ELSE IF value.t = "str"
         THEN LET cleaned == Strip(value.s)
              IN IF cleaned # <<>>
                 THEN LET f == ParseFloat(cleaned)
                      IN IF f.ok THEN IntOfFloat(f.cls, f.neg, f.ip) ELSE NoKeyWarned
                 ELSE NoKey
    ELSE NoKey

(***************************************************************************)
(* _retry_operation                                                        *)
(***************************************************************************)
DefaultMaxRetries == 3
DefaultRetryDelay == 2

\* classes of exception a unit of work raises: requests' Timeout,
\* ConnectionError and HTTPError (raise_for_status), the Smartsheet SDK's
\* ApiError (errors_as_exceptions), OSError from the staging file
RequestExceptions == {"Timeout", "ConnectionError", "HTTPError"}
ExcKinds == RequestExceptions \cup {"ApiError", "OSError"}

\* the except clause of line 147: RequestException and its subclasses
IsRetryable(e) == e \in RequestExceptions

Pending == [tag |-> "pending", exc |-> "none"]
Returned == [tag |-> "return", exc |-> "none"]
Raises(e) == [tag |-> "raise", exc |-> e]

RetryIdle ==
    /\ r_op = "none" /\ r_attempt = 0 /\ r_delay = 0 /\ r_last = "None"
    /\ r_sleeps = <<>> /\ r_outcomes = <<>> /\ r_ret = Pending

\* lines 141-142: entry of _retry_operation for the unit of work op
RetryEnter(op) ==
    /\ r_op' = op
    /\ r_attempt' = 0
    /\ r_delay' = retry_delay
    /\ r_last' = "None"
    /\ r_sleeps' = <<>>
    /\ r_outcomes' = <<>>
    /\ r_ret' = Pending

\* _retry_operation has returned or raised to copy_attachments_to_row: its
\* locals are gone
RetryLeave ==
    /\ r_op' = "none"
    /\ r_attempt' = 0
    /\ r_delay' = 0
    /\ r_last' = "None"
    /\ r_sleeps' = <<>>
    /\ r_outcomes' = <<>>
    /\ r_ret' = Pending

\* what the unit of work op can do when it is executed
OpOutcomes(op) ==
    IF op = "work" THEN {"ok"} \cup ExcKinds
    ELSE IF op = "download" THEN {"ok", "Timeout", "HTTPError", "OSError"}
    ELSE {"ok", "Timeout", "ApiError"}

\* where control continues when _retry_operation returns or raises
AfterRetry(op) ==
    IF op = "get_attachment" THEN "copy_after_get"
    ELSE IF op = "download" THEN "copy_after_download"
    ELSE IF op = "upload" THEN "copy_after_upload"
    ELSE "retry_done"

\* line 155: exponential backoff
NextDelay_Constant(d) == d

NextDelay(d) == d * 2

\* line 151: attempts remain after this one
AttemptsRemain_OffByOne(attempt) == attempt <= max_retries

AttemptsRemain(attempt) == attempt < max_retries

\* line 144: range(1, self.max_retries + 1) has a value after attempt
InRange_Unbounded(attempt) == TRUE

InRange(attempt) == attempt < max_retries

\* line 158: the bare raise statement raises the exception being handled
\* again, the object the unit of work raised
Propagated_Tagged(e) == [tag |-> "raise", exc |-> "RetriesExhausted"]

Propagated(e) == Raises(e)

\* lines 144-162: one iteration of the loop, the unit of work does o
RetryStep(o) ==
    /\ InRange(r_attempt)
    /\ r_attempt' = r_attempt + 1
    /\ r_outcomes' = Append(r_outcomes, o)
    /\ IF o = "ok"
       THEN /\ r_ret' = Returned
            /\ pc' = AfterRetry(r_op)
            /\ UNCHANGED <<r_delay, r_last, r_sleeps>>
       ELSE IF IsRetryable(o)
       THEN /\ r_last' = o
            /\ IF AttemptsRemain(r_attempt')
               THEN /\ r_sleeps' = Append(r_sleeps, r_delay)
                    /\ r_delay' = NextDelay(r_delay)
                    /\ r_ret' = r_ret
                    /\ pc' = pc
               ELSE /\ r_ret' = Propagated(o)
                    /\ pc' = AfterRetry(r_op)
                    /\ UNCHANGED <<r_delay, r_sleeps>>
       ELSE /\ r_ret' = Raises(o)
            /\ pc' = AfterRetry(r_op)
            /\ UNCHANGED <<r_delay, r_last, r_sleeps>>
    /\ UNCHANGED r_op

\* line 165: the loop ended without return or raise (range() was empty);
\* raise None is a TypeError
RetryFallThrough ==
    /\ pc = "retry_loop"
    /\ ~InRange(r_attempt)
    /\ r_ret' = Raises(IF r_last = "None" THEN "TypeError" ELSE r_last)
    /\ pc' = AfterRetry(r_op)
    /\ UNCHANGED <<r_op, r_attempt, r_delay, r_last, r_sleeps, r_outcomes>>

(***************************************************************************)
(* _build_row_map.  A row is its id and its cells; a Python dict is the    *)
(* sequence of its entries in insertion order (assigning to a key that is  *)
(* present keeps the entry's position).                                    *)
(***************************************************************************)
Cell(col, value) == [column_id |-> col, value |-> value]
Row(id, cells) == [id |-> id, cells |-> cells]

DictKeys(d) == {d[i].key : i \in 1..Len(d)}
DictHas(d, k) == k \in DictKeys(d)
DictGet(d, k) == d[CHOOSE i \in 1..Len(d) : d[i].key = k].row
DictPut(d, k, r) ==
    IF DictHas(d, k)
    THEN [i \in 1..Len(d) |-> IF d[i].key = k THEN [key |-> k, row |-> r] ELSE d[i]]
    ELSE Append(d, [key |-> k, row |-> r])

\* lines 107-111: the value of the first cell of the match column, or None
MatchCells(row, col) == {i \in 1..Len(row.cells) : row.cells[i].column_id = col}

MatchValue_LastCell(row, col) ==
    IF MatchCells(row, col) = {} THEN NoneValue
    ELSE row.cells[CHOOSE i \in MatchCells(row, col) : \A j \in MatchCells(row, col) : j <= i].value

MatchValue(row, col) ==
    IF MatchCells(row, col) = {} THEN NoneValue
    ELSE row.cells[CHOOSE i \in MatchCells(row, col) : \A j \in MatchCells(row, col) : i <= j].value

\* line 120: row_map[match_key] = row
StoreRow_KeepFirst(d, k, r) == IF DictHas(d, k) THEN d ELSE DictPut(d, k, r)

StoreRow(d, k, r) == DictPut(d, k, r)

RowId(i) == 9 + i

MapIdle ==
    /\ bm_side = "none" /\ bm_rows = <<>> /\ bm_col = "none" /\ bm_i = 0
    /\ row_map = <<>> /\ bm_warnings = <<>> /\ bm_ret = Pending

\* line 104: entry of _build_row_map(rows, match_column_id)
BuildRowMapEnter(side, rows, col) ==
    /\ bm_side' = side
    /\ bm_rows' = rows
    /\ bm_col' = col
    /\ bm_i' = 0
    /\ row_map' = <<>>
    /\ bm_warnings' = <<>>
    /\ bm_ret' = Pending

\* where control continues when _build_row_map returns or raises
AfterBuildRowMap(side, raised) ==
    IF side = "alone" THEN "bm_done"
    ELSE IF raised THEN "sync_fatal"
    ELSE IF side = "source" THEN "sync_build_target"
    ELSE "sync_matched"

\* lines 113-115: the row is left out when it has no cell in the match
\* column, when the cell is empty or when no key is derived from its value
RowHasNoKey_Never(match_value, res) == FALSE

RowHasNoKey(match_value, res) == match_value = NoneValue \/ res.tag = "none"

\* lines 105-121: one iteration of the loop over rows
BuildRowMapStep ==
    /\ pc = "bm_loop"
    /\ bm_i < Len(bm_rows)
    /\ LET row == bm_rows[bm_i + 1]
           match_value == MatchValue(row, bm_col)
           res == extract_match_key(match_value)
       IN /\ bm_i' = bm_i + 1
          /\ IF RowHasNoKey(match_value, res)
             THEN UNCHANGED <<row_map, bm_warnings, bm_ret, pc>>
             ELSE IF res.tag = "raise"
             THEN /\ bm_ret' = Raises(res.exc)
                  /\ pc' = AfterBuildRowMap(bm_side, TRUE)
                  /\ UNCHANGED <<row_map, bm_warnings>>
             ELSE /\ bm_warnings' =
                        IF DictHas(row_map, res.key)
                        THEN Append(bm_warnings, [key |-> res.key, new |-> row.id,
                                                  old |-> DictGet(row_map, res.key)])
                        ELSE bm_warnings
                  /\ row_map' = StoreRow(row_map, res.key, row.id)
                  /\ UNCHANGED <<bm_ret, pc>>
    /\ UNCHANGED <<bm_side, bm_rows, bm_col>>

\* lines 123-124: the loop is over, return row_map
BuildRowMapReturn ==
    /\ pc = "bm_loop"
    /\ bm_i = Len(bm_rows)
    /\ bm_ret' = Returned
    /\ pc' = AfterBuildRowMap(bm_side, FALSE)
    /\ UNCHANGED <<bm_side, bm_rows, bm_col, bm_i, row_map, bm_warnings>>

(***************************************************************************)
(* copy_attachments_to_row, as sync_attachments calls it: both caches      *)
(* given, skip_existing = True                                             *)
(***************************************************************************)
ZeroStats ==
    [total_rows_processed |-> 0, rows_with_matches |-> 0, rows_without_matches |-> 0,
     attachments_synced |-> 0, attachments_skipped |-> 0, errors |-> 0]

\* an attachment as list_row_attachments describes it
RemoteAtt(id, name, type) == [id |-> id, name |-> name, type |-> type]
Att(id, name) == RemoteAtt(id, name, "FILE")

AttNames == {"a.pdf", "b.png", "d/a.pdf"}

AttId(i) == 100 + i

\* line 179: os.path.basename(name)
Basename(name) == IF name = "d/a.pdf" THEN "a.pdf" ELSE name

\* dict.get(row_id, [])
CacheGet(cache, row_id) == IF row_id \in DOMAIN cache THEN cache[row_id] ELSE <<>>

\* lines 278-279
get_attachment_names_from_cache(cache, row_id) ==
    {CacheGet(cache, row_id)[i].name : i \in 1..Len(CacheGet(cache, row_id))}

\* the url attribute of the descriptor get_attachment returns
Urls == {"None", "", " ", "https://host/file"}

\* line 370: not download_url or not str(download_url).strip()
UrlInvalid_NoneOnly(url) == url = "None"

UrlInvalid(url) == url \in {"None", "", " "}

CopyPending == [tag |-> "pending", value |-> 0]
CopyReturned(n) == [tag |-> "return", value |-> n]

EmptyCache == [r \in {} |-> <<>>]

CopyIdle ==
    /\ stats = ZeroStats
    /\ tgt_att = EmptyCache /\ staged = {} /\ uploads = <<>>
    /\ source_attachment_cache = EmptyCache /\ target_attachment_cache = EmptyCache
    /\ c_caller = "none" /\ c_src = 0 /\ c_tgt = 0
    /\ file_attachments = <<>> /\ existing_names = {} /\ c_j = 0 /\ copied_count = 0
    /\ file_path = "None" /\ download_url = "None" /\ c_ret = CopyPending
    /\ c_stats0 = ZeroStats /\ requests = 0 /\ ops = <<>> /\ c_failed = FALSE /\ outcomes = <<>>

\* where control continues when copy_attachments_to_row returns
AfterCopy == IF c_caller = "alone" THEN "copy_done" ELSE "sync_loop"

Bump(st, counter) == [st EXCEPT ![counter] = @ + 1]

\* the attachment the loop of line 340 is processing
CurrentAtt_Reversed == file_attachments[Len(file_attachments) + 1 - c_j]

CurrentAtt == file_attachments[c_j]

\* line 344: attachment.name in existing_names
IsDuplicate_Never(att, names) == FALSE

IsDuplicate(att, names) == att.name \in names

\* lines 310-322: requests sent to obtain the source list; none when the
\* cache is given, whether or not it has an entry for the row
ListingCalls_Always(cache, row_id) == 1

ListingCalls_OnMiss(cache, row_id) == IF row_id \in DOMAIN cache THEN 0 ELSE 1

ListingCalls(cache, row_id) == 0

\* lines 306-337: entry, the source list and the names on the target
CopyStart ==
    /\ pc = "copy_start"
    /\ copied_count' = 0
    /\ c_stats0' = stats
    /\ c_failed' = FALSE
    /\ outcomes' = <<>>
    /\ requests' = ListingCalls(source_attachment_cache, c_src)
    /\ ops' = [i \in 1..requests' |-> "list_row_attachments"]
    /\ file_attachments' = CacheGet(source_attachment_cache, c_src)
    /\ c_j' = 0
    /\ file_path' = "None"
    /\ download_url' = "None"
    /\ IF file_attachments' = <<>>
       THEN /\ c_ret' = CopyReturned(0)
            /\ pc' = AfterCopy
            /\ UNCHANGED existing_names
       ELSE /\ existing_names' = get_attachment_names_from_cache(target_attachment_cache, c_tgt)
            /\ c_ret' = CopyPending
            /\ pc' = "copy_loop"
    /\ UNCHANGED <<c_caller, c_src, c_tgt, stats, tgt_att, staged, uploads, cacheVars, retryVars>>

\* lines 340-347: the next attachment is on the target already
CopySkipDuplicate ==
    /\ pc = "copy_loop"
    /\ c_j < Len(file_attachments)
    /\ IsDuplicate(file_attachments[c_j + 1], existing_names)
    /\ c_j' = c_j + 1
    /\ file_path' = "None"
    /\ stats' = Bump(stats, "attachments_skipped")
    /\ requests' = 0
    /\ ops' = <<>>
    /\ outcomes' = Append(outcomes, "duplicate")
    /\ UNCHANGED <<pc, c_caller, c_src, c_tgt, file_attachments, existing_names, copied_count,
                   download_url, c_ret, c_stats0, c_failed, envVars, cacheVars, retryVars>>

\* lines 340-360: the next attachment is new, ask for its fresh descriptor
CopyFetch ==
    /\ pc = "copy_loop"
    /\ c_j < Len(file_attachments)
    /\ ~IsDuplicate(file_attachments[c_j + 1], existing_names)
    /\ c_j' = c_j + 1
    /\ file_path' = "None"
    /\ requests' = 0
    /\ ops' = <<>>
    /\ RetryEnter("get_attachment")
    /\ pc' = "retry_loop"
    /\ UNCHANGED <<c_caller, c_src, c_tgt, file_attachments, existing_names, copied_count,
                   download_url, c_ret, c_stats0, c_failed, outcomes, stats, envVars, cacheVars>>

\* line 417: the loop is over; the locals of the last iteration are gone and
\* no attachment is being processed
CopyReturn ==
    /\ pc = "copy_loop"
    /\ c_j = Len(file_attachments)
    /\ c_ret' = CopyReturned(copied_count)
    /\ file_path' = "None"
    /\ download_url' = "None"
    /\ requests' = 0
    /\ ops' = <<>>
    /\ pc' = AfterCopy
    /\ UNCHANGED <<c_caller, c_src, c_tgt, file_attachments, existing_names, c_j, copied_count,
                   c_stats0, c_failed, outcomes, stats, envVars, cacheVars, retryVars>>

\* lines 186-192, 353-355, 385-390: what one execution of the unit of work
\* does to the world.  A download that times out may have written part of
\* the file (wrote); an upload that succeeds adds the file to the target row.
OpEffect(op, o, wrote) ==
    /\ requests' = requests + 1
    /\ ops' = Append(ops, op)
    /\ staged' = IF op = "download" /\ (o = "ok" \/ (o = "Timeout" /\ wrote))
                 THEN staged \cup {Basename(CurrentAtt.name)}
                 ELSE staged
    /\ IF op = "upload" /\ o = "ok"
       THEN /\ tgt_att' = [r \in DOMAIN tgt_att \cup {c_tgt} |->
                              IF r = c_tgt
                              THEN Append(CacheGet(tgt_att, c_tgt),
                                          Att(AttId(20 + Len(CacheGet(tgt_att, c_tgt))), CurrentAtt.name))
                              ELSE tgt_att[r]]
            /\ uploads' = Append(uploads, [row |-> c_tgt, name |-> CurrentAtt.name, id |-> CurrentAtt.id])
       ELSE UNCHANGED <<tgt_att, uploads>>

\* one iteration of the retry loop around get_attachment, download or upload
CopyRetryStep ==
    /\ pc = "retry_loop"
    /\ r_op \in {"get_attachment", "download", "upload"}
    /\ \E o \in OpOutcomes(r_op) :
         \E wrote \in {w \in BOOLEAN : w => (r_op = "download" /\ o = "Timeout")} :
            RetryStep(o) /\ OpEffect(r_op, o, wrote)
    /\ UNCHANGED <<keyVars, cfgVars, mapVars, stats, cacheVars, remoteVars, syncVars,
                   c_caller, c_src, c_tgt, file_attachments, existing_names, c_j, copied_count,
                   file_path, download_url, c_ret, c_stats0, c_failed, outcomes>>

CopyRetryFallThrough ==
    /\ RetryFallThrough
    /\ r_op \in {"get_attachment", "download", "upload"}
    /\ UNCHANGED <<keyVars, cfgVars, mapVars, stats, envVars, cacheVars, copyVars, remoteVars, syncVars>>

\* lines 340, 367, 373, 399-411: an attachment has reached its outcome
\* (continue, the end of the try statement or its except clause, each
\* followed by the finally clause): the for loop of line 340 goes on
NextAttachment_Abort == AfterCopy

NextAttachment == "copy_loop"

\* lines 361-367: the except clause of the fetch counts the attachment as
\* skipped
OnFetchFailure_Error(st) == Bump(st, "errors")

OnFetchFailure(st) == Bump(st, "attachments_skipped")

\* lines 361-373: the descriptor arrived or the fetch failed
CopyAfterGet ==
    /\ pc = "copy_after_get"
    /\ IF r_ret.tag = "raise"
       THEN /\ stats' = OnFetchFailure(stats)
            /\ c_failed' = TRUE
            /\ outcomes' = Append(outcomes, "fetch_failed")
            /\ pc' = NextAttachment
            /\ RetryLeave
            /\ UNCHANGED download_url
       ELSE \E url \in Urls :
              /\ download_url' = url
              /\ IF UrlInvalid(url)
                 THEN /\ stats' = Bump(stats, "attachments_skipped")
                      /\ c_failed' = TRUE
                      /\ outcomes' = Append(outcomes, "invalid_url")
                      /\ pc' = NextAttachment
                      /\ RetryLeave
                 ELSE /\ RetryEnter("download")
                      /\ pc' = "retry_loop"
                      /\ UNCHANGED <<stats, c_failed, outcomes>>
    /\ UNCHANGED <<c_caller, c_src, c_tgt, file_attachments, existing_names, c_j, copied_count,
                   file_path, c_ret, c_stats0, requests, ops, envVars, cacheVars>>

\* lines 401-403: the except clause of the attachment's try statement counts
\* a failed download or upload as an error
OnTransferFailure_Skip(st) == Bump(st, "attachments_skipped")

OnTransferFailure(st) == Bump(st, "errors")

\* lines 376-395, 401-411: the download returned the path or raised; when it
\* raised, file_path is still None and the finally clause removes nothing
CopyAfterDownload ==
    /\ pc = "copy_after_download"
    /\ IF r_ret.tag = "raise"
       THEN /\ stats' = OnTransferFailure(stats)
            /\ c_failed' = TRUE
            /\ outcomes' = Append(outcomes, "download_failed")
            /\ pc' = NextAttachment
            /\ RetryLeave
            /\ UNCHANGED file_path
       ELSE /\ file_path' = Basename(CurrentAtt.name)
            /\ RetryEnter("upload")
            /\ pc' = "retry_loop"
            /\ UNCHANGED <<stats, c_failed, outcomes>>
    /\ UNCHANGED <<c_caller, c_src, c_tgt, file_attachments, existing_names, c_j, copied_count,
                   download_url, c_ret, c_stats0, requests, ops, envVars, cacheVars>>

\* lines 397-398: a successful upload is counted as synced
OnCopied_Uncounted(st) == st

OnCopied(st) == Bump(st, "attachments_synced")

\* lines 397-411: the upload returned or raised, then the staged file is
\* removed (removed = FALSE: os.remove raised, a warning is logged)
CopyAfterUpload ==
    /\ pc = "copy_after_upload"
    /\ IF r_ret.tag = "raise"
       THEN /\ stats' = OnTransferFailure(stats)
            /\ c_failed' = TRUE
            /\ outcomes' = Append(outcomes, "upload_failed")
            /\ UNCHANGED copied_count
       ELSE /\ copied_count' = copied_count + 1
            /\ stats' = OnCopied(stats)
            /\ outcomes' = Append(outcomes, "copied")
            /\ UNCHANGED c_failed
    /\ \E removed \in BOOLEAN :
         staged' = IF file_path # "None" /\ file_path \in staged /\ removed
                   THEN staged \ {file_path}
                   ELSE staged
    /\ pc' = NextAttachment
    /\ RetryLeave
    /\ UNCHANGED <<c_caller, c_src, c_tgt, file_attachments, existing_names, c_j,
                   file_path, download_url, c_ret, c_stats0, requests, ops,
                   tgt_att, uploads, cacheVars>>

CopyBody ==
    \/ CopyStart
    \/ CopySkipDuplicate
    \/ CopyFetch
    \/ CopyReturn
    \/ CopyAfterGet
    \/ CopyAfterDownload
    \/ CopyAfterUpload

(***************************************************************************)
(* _build_attachment_cache, sync_attachments and main()                    *)
(***************************************************************************)
NoExit == 0 - 1

SyncPending == [tag |-> "pending", exc |-> "none", value |-> ZeroStats]
SyncReturned(st) == [tag |-> "return", exc |-> "none", value |-> st]
SyncRaised(e) == [tag |-> "raise", exc |-> e, value |-> ZeroStats]

SyncIdle ==
    /\ run = 0 /\ src_rows = <<>> /\ tgt_rows = <<>> /\ src_att = EmptyCache
    /\ source_map = <<>> /\ target_map = <<>>
    /\ matched_source_row_ids = <<>> /\ matched_target_row_ids = <<>>
    /\ cb_side = "none" /\ cb_i = 0 /\ attachment_cache = EmptyCache /\ list_calls = <<>>
    /\ s_i = 0 /\ copy_calls = <<>> /\ fatal_exc = "none" /\ s_ret = SyncPending /\ s_results = <<>>
    /\ exit_code = NoExit

\* lines 419-431: sync_attachments is entered; the locals of an earlier call
\* are gone, self.stats is not touched
EnterSync ==
    /\ pc' = "sync_start"
    /\ uploads' = <<>>
    /\ source_map' = <<>> /\ target_map' = <<>>
    /\ matched_source_row_ids' = <<>> /\ matched_target_row_ids' = <<>>
    /\ cb_side' = "none" /\ cb_i' = 0 /\ attachment_cache' = EmptyCache /\ list_calls' = <<>>
    /\ s_i' = 0 /\ copy_calls' = <<>> /\ fatal_exc' = "none" /\ s_ret' = SyncPending
    /\ source_attachment_cache' = EmptyCache /\ target_attachment_cache' = EmptyCache
    /\ c_caller' = "none" /\ c_src' = 0 /\ c_tgt' = 0
    /\ file_attachments' = <<>> /\ existing_names' = {} /\ c_j' = 0 /\ copied_count' = 0
    /\ file_path' = "None" /\ download_url' = "None" /\ c_ret' = CopyPending
    /\ c_stats0' = ZeroStats /\ requests' = 0 /\ ops' = <<>> /\ c_failed' = FALSE /\ outcomes' = <<>>
    /\ r_op' = "none" /\ r_attempt' = 0 /\ r_delay' = 0 /\ r_last' = "None"
    /\ r_sleeps' = <<>> /\ r_outcomes' = <<>> /\ r_ret' = Pending
    /\ bm_side' = "none" /\ bm_rows' = <<>> /\ bm_col' = "none" /\ bm_i' = 0
    /\ row_map' = <<>> /\ bm_warnings' = <<>> /\ bm_ret' = Pending
    /\ UNCHANGED <<keyVars, cfgVars, remoteVars, tgt_att, staged>>

\* main.py lines 89-99 and __init__ lines 43-64: a new process, a new
\* AttachmentSyncer with the default max_retries and retry_delay and with
\* every counter of stats at 0
StartRun ==
    /\ run' = run + 1
    /\ stats' = ZeroStats
    /\ s_results' = <<>>
    /\ exit_code' = NoExit
    /\ EnterSync

\* the caller that received the result of sync_attachments calls it again on
\* the same AttachmentSyncer
SyncAgain ==
    /\ pc = "main_after_sync"
    /\ Len(s_results) < MaxCalls
    /\ EnterSync
    /\ UNCHANGED <<run, stats, s_results, exit_code>>

\* the program is started
MainStart == pc = "main_start" /\ StartRun

\* the program is started again after it has exited; the sheets, their
\* attachments and the staging folder are as the earlier run left them
MainRestart == pc = "exited" /\ run < MaxRuns /\ StartRun

\* lines 433-447: both sheets are loaded, then the source rows are indexed
SyncLoad ==
    /\ pc = "sync_start"
    /\ \E o \in {"ok", "source_fails", "target_fails"} :
         IF o = "ok"
         THEN /\ BuildRowMapEnter("source", src_rows, "src_col")
              /\ pc' = "bm_loop"
              /\ UNCHANGED fatal_exc
         ELSE /\ fatal_exc' = "ApiError"
              /\ pc' = "sync_fatal"
              /\ UNCHANGED mapVars
    /\ UNCHANGED <<keyVars, cfgVars, retryVars, stats, envVars, cacheVars, copyVars, remoteVars,
                   run, source_map, target_map, matched_source_row_ids, matched_target_row_ids,
                   cb_side, cb_i, attachment_cache, list_calls, s_i, copy_calls, s_ret, s_results, exit_code>>

\* lines 444-451: source_map is bound, the target rows are indexed
SyncBuildTarget ==
    /\ pc = "sync_build_target"
    /\ source_map' = row_map
    /\ BuildRowMapEnter("target", tgt_rows, "tgt_col")
    /\ pc' = "bm_loop"
    /\ UNCHANGED <<keyVars, cfgVars, retryVars, stats, envVars, cacheVars, copyVars, remoteVars,
                   run, target_map, matched_source_row_ids, matched_target_row_ids,
                   cb_side, cb_i, attachment_cache, list_calls, s_i, copy_calls, fatal_exc,
                   s_ret, s_results, exit_code>>

\* lines 460-463: the row ids of the keys present in both maps, in the
\* order of source_map
RECURSIVE MatchedEntries(_, _)
MatchedEntries(smap, tmap) ==
    IF smap = <<>> THEN <<>>
    ELSE IF DictHas(tmap, Head(smap).key)
         THEN <<Head(smap)>> \o MatchedEntries(Tail(smap), tmap)
         ELSE MatchedEntries(Tail(smap), tmap)

\* lines 448-467: target_map is bound, the matched row ids are collected and
\* the first _build_attachment_cache call begins
SyncMatched ==
    /\ pc = "sync_matched"
    /\ target_map' = row_map
    /\ LET m == MatchedEntries(source_map, row_map)
       IN /\ matched_source_row_ids' = [i \in 1..Len(m) |-> m[i].row]
          /\ matched_target_row_ids' = [i \in 1..Len(m) |-> DictGet(row_map, m[i].key)]
    /\ cb_side' = "source"
    /\ cb_i' = 0
    /\ attachment_cache' = EmptyCache
    /\ pc' = "cache_loop"
    /\ UNCHANGED <<keyVars, cfgVars, retryVars, mapVars, stats, envVars, cacheVars, copyVars,
                   remoteVars, run, source_map, list_calls, s_i, copy_calls, fatal_exc,
                   s_ret, s_results, exit_code>>

\* lines 225-228: only FILE attachments are cached
FileOnly_All(list) == list

RECURSIVE FileOnly(_)
FileOnly(list) ==
    IF list = <<>> THEN <<>>
    ELSE IF Head(list).type = "FILE" THEN <<Head(list)>> \o FileOnly(Tail(list))
    ELSE FileOnly(Tail(list))

CacheRowIds == IF cb_side = "source" THEN matched_source_row_ids ELSE matched_target_row_ids

RemoteAttachments(side, row_id) ==
    IF side = "source" THEN CacheGet(src_att, row_id) ELSE CacheGet(tgt_att, row_id)

CachePut(cache, row_id, list) ==
    [r \in DOMAIN cache \cup {row_id} |-> IF r = row_id THEN list ELSE cache[r]]

\* lines 217-235: one iteration of the loop of _build_attachment_cache; the
\* listing returns (listed) or raises
CacheStep ==
    /\ pc = "cache_loop"
    /\ cb_i < Len(CacheRowIds)
    /\ LET row_id == CacheRowIds[cb_i + 1]
       IN /\ list_calls' = Append(list_calls, [side |-> cb_side, row |-> row_id])
          /\ \E listed \in BOOLEAN :
               attachment_cache' =
                   CachePut(attachment_cache, row_id,
                            IF listed THEN FileOnly(RemoteAttachments(cb_side, row_id)) ELSE <<>>)
    /\ cb_i' = cb_i + 1
    /\ UNCHANGED <<pc, keyVars, cfgVars, retryVars, mapVars, stats, envVars, cacheVars, copyVars,
                   remoteVars, run, source_map, target_map, matched_source_row_ids,
                   matched_target_row_ids, cb_side, s_i, copy_calls, fatal_exc, s_ret, s_results, exit_code>>

\* lines 237-238 and 466-471: the source cache is returned, the target
\* cache is begun
CacheReturnSource ==
    /\ pc = "cache_loop"
    /\ cb_side = "source"
    /\ cb_i = Len(CacheRowIds)
    /\ source_attachment_cache' = attachment_cache
    /\ cb_side' = "target"
    /\ cb_i' = 0
    /\ attachment_cache' = EmptyCache
    /\ UNCHANGED <<pc, keyVars, cfgVars, retryVars, mapVars, stats, envVars, copyVars,
                   target_attachment_cache,
                   remoteVars, run, source_map, target_map, matched_source_row_ids,
                   matched_target_row_ids, list_calls, s_i, copy_calls, fatal_exc, s_ret, s_results,
                   exit_code>>

\* lines 237-238 and 469-475: the target cache is returned, the row loop
\* begins
CacheReturnTarget ==
    /\ pc = "cache_loop"
    /\ cb_side = "target"
    /\ cb_i = Len(CacheRowIds)
    /\ target_attachment_cache' = attachment_cache
    /\ s_i' = 0
    /\ pc' = "sync_loop"
    /\ UNCHANGED <<keyVars, cfgVars, retryVars, mapVars, stats, envVars, copyVars,
                   source_attachment_cache,
                   remoteVars, run, source_map, target_map, matched_source_row_ids,
                   matched_target_row_ids, cb_side, cb_i, attachment_cache, list_calls,
                   copy_calls, fatal_exc, s_ret, s_results, exit_code>>

\* line 478: match_key not in target_map
IsUnmatched_Always(key, tmap) == TRUE

IsUnmatched(key, tmap) == ~DictHas(tmap, key)

\* lines 476, 479 and 484: a row of the loop is counted as processed and as
\* matched or unmatched
CountRow_NoTotal(st, counter) == Bump(st, counter)

CountRow(st, counter) == Bump(Bump(st, "total_rows_processed"), counter)

\* lines 475-481: the next key of source_map has no target row
SyncSkipRow ==
    /\ pc = "sync_loop"
    /\ s_i < Len(source_map)
    /\ IsUnmatched(source_map[s_i + 1].key, target_map)
    /\ s_i' = s_i + 1
    /\ stats' = CountRow(stats, "rows_without_matches")
    /\ UNCHANGED <<pc, keyVars, cfgVars, retryVars, mapVars, envVars, cacheVars, copyVars,
                   remoteVars, run, source_map, target_map, matched_source_row_ids,
                   matched_target_row_ids, cb_side, cb_i, attachment_cache, list_calls,
                   copy_calls, fatal_exc, s_ret, s_results, exit_code>>

\* lines 475-498: the next key of source_map is matched,
\* copy_attachments_to_row is called for the pair
SyncCopyRow ==
    /\ pc = "sync_loop"
    /\ s_i < Len(source_map)
    /\ ~IsUnmatched(source_map[s_i + 1].key, target_map)
    /\ s_i' = s_i + 1
    /\ stats' = CountRow(stats, "rows_with_matches")
    /\ c_caller' = "sync"
    /\ c_src' = source_map[s_i + 1].row
    /\ c_tgt' = DictGet(target_map, source_map[s_i + 1].key)
    /\ copy_calls' = Append(copy_calls, <<c_src', c_tgt'>>)
    /\ c_ret' = CopyPending
    /\ pc' = "copy_start"
    /\ UNCHANGED <<keyVars, cfgVars, retryVars, mapVars, envVars, cacheVars,
                   file_attachments, existing_names, c_j, copied_count, file_path, download_url,
                   c_stats0, requests, ops, c_failed, outcomes,
                   remoteVars, run, source_map, target_map, matched_source_row_ids,
                   matched_target_row_ids, cb_side, cb_i, attachment_cache, list_calls,
                   fatal_exc, s_ret, s_results, exit_code>>

\* lines 503-525: the loop is over, the summary is logged, return self.stats
SyncReturn ==
    /\ pc = "sync_loop"
    /\ s_i = Len(source_map)
    /\ s_ret' = SyncReturned(stats)
    /\ s_results' = Append(s_results, s_ret')
    /\ pc' = "main_after_sync"
    /\ UNCHANGED <<keyVars, cfgVars, retryVars, mapVars, stats, envVars, cacheVars, copyVars,
                   remoteVars, run, source_map, target_map, matched_source_row_ids,
                   matched_target_row_ids, cb_side, cb_i, attachment_cache, list_calls, s_i,
                   copy_calls, fatal_exc, exit_code>>

\* lines 520-523: an exception escaped the body: count it and re-raise it;
\* the return statement of line 525 is not reached
FatalResult_ReturnsStats(e, st) == SyncReturned(st)

FatalResult(e, st) == SyncRaised(e)

SyncFatal ==
    /\ pc = "sync_fatal"
    /\ fatal_exc' = IF fatal_exc # "none" THEN fatal_exc ELSE bm_ret.exc
    /\ stats' = Bump(stats, "errors")
    /\ s_ret' = FatalResult(fatal_exc', stats')
    /\ s_results' = Append(s_results, s_ret')
    /\ pc' = "main_after_sync"
    /\ UNCHANGED <<keyVars, cfgVars, retryVars, mapVars, envVars, cacheVars, copyVars,
                   remoteVars, run, source_map, target_map, matched_source_row_ids,
                   matched_target_row_ids, cb_side, cb_i, attachment_cache, list_calls, s_i,
                   copy_calls, exit_code>>

\* main.py line 32, in percent
ErrorRateThresholdPercent == 10

\* main.py lines 102-151: the branch of the if statement that is taken for
\* the stats sync_attachments returned; error_rate < ERROR_RATE_THRESHOLD is
\* compared in percent
ExitBranch(st) ==
    LET errors == st.errors
        synced == st.attachments_synced
        skipped == st.attachments_skipped
        total_operations == synced + skipped + errors
    IN IF errors = 0 THEN "no_errors"
       ELSE IF total_operations > 0
            THEN IF errors * 100 < ErrorRateThresholdPercent * total_operations THEN "low_error_rate"
                 ELSE IF synced > 0 \/ skipped > 0 THEN "progress" ELSE "no_progress"
       ELSE "no_operations"

\* main.py lines 116, 133, 141, 146, 151: the code each branch passes to
\* sys.exit
ExitCodeOf_FailOnHighRate(st) ==
    IF ExitBranch(st) \in {"no_errors", "low_error_rate"} THEN 0 ELSE 1

ExitCodeOf(st) ==
    IF ExitBranch(st) \in {"no_errors", "low_error_rate", "progress"} THEN 0 ELSE 1

\* main.py lines 99-158: stats is bound only when sync_attachments returned;
\* when it raised, the handler of line 156 exits with 1
MainExit ==
    /\ pc = "main_after_sync"
    /\ exit_code' = IF s_ret.tag = "raise" THEN 1 ELSE ExitCodeOf(s_ret.value)
    /\ pc' = "exited"
    /\ UNCHANGED <<keyVars, cfgVars, retryVars, mapVars, stats, envVars, cacheVars, copyVars,
                   remoteVars, run, source_map, target_map, matched_source_row_ids,
                   matched_target_row_ids, cb_side, cb_i, attachment_cache, list_calls, s_i,
                   copy_calls, fatal_exc, s_ret, s_results>>

(***************************************************************************)
(* Spec: one run of the program against a source and a target sheet        *)
(***************************************************************************)
SyncSrcValues == {IntValue(1), IntValue(2), NoneValue, StrValue(<<"i", "n", "f">>)}
SyncTgtValues == {IntValue(1), IntValue(2)}

SheetsOf(first, col, values) ==
    UNION {{[i \in 1..n |-> Row(RowId(first + i), <<Cell(col, v[i])>>)] : v \in [1..n -> values]}
           : n \in 1..MaxSyncRows}

\* the cells of a source row: one cell in the match column, or no cell in
\* that column
SrcRowCells ==
    {<<Cell("src_col", v)>> : v \in SyncSrcValues} \cup {<<Cell("other_col", IntValue(1))>>}

SrcSheets ==
    UNION {{[i \in 1..n |-> Row(RowId(i), c[i])] : c \in [1..n -> SrcRowCells]}
           : n \in 1..MaxSyncRows}

\* the attachments of source row i: nothing, one or two files, or a link
\* and a file
SrcAttOptions(i) ==
    {<<>>,
     <<RemoteAtt(AttId(10 * i + 1), "a.pdf", "FILE")>>,
     <<RemoteAtt(AttId(10 * i + 1), "a.pdf", "FILE"), RemoteAtt(AttId(10 * i + 2), "b.png", "FILE")>>,
     <<RemoteAtt(AttId(10 * i + 1), "a.pdf", "FILE"), RemoteAtt(AttId(10 * i + 2), "a.pdf", "FILE")>>,
     <<RemoteAtt(AttId(10 * i + 1), "a.pdf", "LINK"), RemoteAtt(AttId(10 * i + 2), "b.png", "FILE")>>}

RECURSIVE TotalLen(_, _)
TotalLen(f, S) ==
    IF S = {} THEN 0 ELSE LET x == CHOOSE y \in S : TRUE IN Len(f[x]) + TotalLen(f, S \ {x})

RowIdsOf(rows) == {rows[i].id : i \in 1..Len(rows)}

\* the index i of the row with the given id
SrcAttachments(rows) ==
    {f \in [RowIdsOf(rows) -> UNION {SrcAttOptions(i) : i \in 1..MaxSyncRows}] :
        /\ \A i \in 1..Len(rows) : f[rows[i].id] \in SrcAttOptions(i)
        /\ TotalLen(f, RowIdsOf(rows)) <= MaxSyncAtt}

TgtAttachments(rows) ==
    {[r \in RowIdsOf(rows) |-> IF r = rows[1].id THEN l ELSE <<>>] :
        l \in {<<>>, <<RemoteAtt(AttId(91), "a.pdf", "FILE")>>}}

\* the state before sync_attachments is entered, the AttachmentSyncer built
\* with one of the given values of max_retries
InitRun(retries) ==
    /\ pc = "main_start"
    /\ max_retries \in retries
    /\ retry_delay = DefaultRetryDelay
    /\ src_rows \in SrcSheets
    /\ tgt_rows \in SheetsOf(10, "tgt_col", SyncTgtValues)
    /\ src_att \in SrcAttachments(src_rows)
    /\ tgt_att \in TgtAttachments(tgt_rows)
    /\ stats = ZeroStats
    /\ staged = {} /\ uploads = <<>>
    /\ source_attachment_cache = EmptyCache /\ target_attachment_cache = EmptyCache
    /\ c_caller = "none" /\ c_src = 0 /\ c_tgt = 0
    /\ file_attachments = <<>> /\ existing_names = {} /\ c_j = 0 /\ copied_count = 0
    /\ file_path = "None" /\ download_url = "None" /\ c_ret = CopyPending
    /\ c_stats0 = ZeroStats /\ requests = 0 /\ ops = <<>> /\ c_failed = FALSE /\ outcomes = <<>>
    /\ run = 0
    /\ source_map = <<>> /\ target_map = <<>>
    /\ matched_source_row_ids = <<>> /\ matched_target_row_ids = <<>>
    /\ cb_side = "none" /\ cb_i = 0 /\ attachment_cache = EmptyCache /\ list_calls = <<>>
    /\ s_i = 0 /\ copy_calls = <<>> /\ fatal_exc = "none" /\ s_ret = SyncPending /\ s_results = <<>>
    /\ exit_code = NoExit
    /\ KeyIdle
    /\ RetryIdle
    /\ MapIdle

\* main.py lines 87-96: main() passes no max_retries
Init == InitRun({DefaultMaxRetries})

RowMapStep == BuildRowMapStep /\ UNCHANGED <<keyVars, cfgVars, retryVars, stats, envVars, cacheVars, copyVars, remoteVars, syncVars>>

RowMapReturn == BuildRowMapReturn /\ UNCHANGED <<keyVars, cfgVars, retryVars, stats, envVars, cacheVars, copyVars, remoteVars, syncVars>>

CopyStep == CopyBody /\ UNCHANGED <<keyVars, cfgVars, mapVars, remoteVars, syncVars>>

Next ==
    \/ MainStart
    \/ SyncLoad
    \/ RowMapStep
    \/ RowMapReturn
    \/ SyncBuildTarget
    \/ SyncMatched
    \/ CacheStep
    \/ CacheReturnSource
    \/ CacheReturnTarget
    \/ SyncSkipRow
    \/ SyncCopyRow
    \/ CopyStep
    \/ CopyRetryStep
    \/ SyncReturn
    \/ SyncFatal
    \/ MainExit

Spec == Init /\ [][Next]_vars

(***************************************************************************)
(* SpecTwice: the program is run MaxRuns times in succession               *)
(***************************************************************************)
\* every source row has an integer key
InitTwice == Init /\ src_rows \in SheetsOf(0, "src_col", SyncTgtValues)

NextTwice == Next \/ MainRestart

SpecTwice == InitTwice /\ [][NextTwice]_vars

(***************************************************************************)
(* SpecLive: one run, the AttachmentSyncer built with max_retries from 0   *)
(* to MaxLiveRetries; every step that can be taken is eventually taken     *)
(* (each network call and each file operation returns or fails in finite   *)
(* time, and the program is a single thread)                               *)
(***************************************************************************)
InitLive ==
    /\ InitRun(0..MaxLiveRetries)
    /\ Len(tgt_rows) = 1

NextLive == Next \/ CopyRetryFallThrough

SpecLive == InitLive /\ [][NextLive]_vars /\ WF_vars(NextLive)

(***************************************************************************)
(* SpecExit: main() after sync_attachments has returned stats drawn from   *)
(* a bounded set, or has raised                                            *)
(***************************************************************************)
\* the stats of a run that matched one row and ended normally
ReturnedStats ==
    {[total_rows_processed |-> 1, rows_with_matches |-> 1, rows_without_matches |-> 0,
      attachments_synced |-> synced, attachments_skipped |-> skipped, errors |-> errors] :
        synced \in 0..MaxExitSynced, skipped \in 0..MaxExitSkipped, errors \in 0..MaxExitErrors}

InitExit ==
    /\ pc = "main_after_sync"
    /\ max_retries = DefaultMaxRetries
    /\ retry_delay = DefaultRetryDelay
    /\ run = 1
    /\ \/ /\ stats \in ReturnedStats
          /\ s_ret = SyncReturned(stats)
          /\ fatal_exc = "none"
       \/ /\ stats = Bump(ZeroStats, "errors")
          /\ s_ret = SyncRaised("ApiError")
          /\ fatal_exc = "ApiError"
    /\ s_results = <<s_ret>>
    /\ exit_code = NoExit
    /\ src_rows = <<>> /\ tgt_rows = <<>> /\ src_att = EmptyCache /\ tgt_att = EmptyCache
    /\ staged = {} /\ uploads = <<>>
    /\ source_attachment_cache = EmptyCache /\ target_attachment_cache = EmptyCache
    /\ c_caller = "none" /\ c_src = 0 /\ c_tgt = 0
    /\ file_attachments = <<>> /\ existing_names = {} /\ c_j = 0 /\ copied_count = 0
    /\ file_path = "None" /\ download_url = "None" /\ c_ret = CopyPending
    /\ c_stats0 = ZeroStats /\ requests = 0 /\ ops = <<>> /\ c_failed = FALSE /\ outcomes = <<>>
    /\ source_map = <<>> /\ target_map = <<>>
    /\ matched_source_row_ids = <<>> /\ matched_target_row_ids = <<>>
    /\ cb_side = "none" /\ cb_i = 0 /\ attachment_cache = EmptyCache /\ list_calls = <<>>
    /\ s_i = 0 /\ copy_calls = <<>>
    /\ KeyIdle
    /\ RetryIdle
    /\ MapIdle

NextExit == MainExit

SpecExit == InitExit /\ [][NextExit]_vars

(***************************************************************************)
(* SpecReuse: one AttachmentSyncer whose sync_attachments is called        *)
(* MaxCalls times in succession                                            *)
(***************************************************************************)
\* one target row
InitReuse == InitTwice /\ Len(tgt_rows) = 1

NextReuse == Next \/ SyncAgain

SpecReuse == InitReuse /\ [][NextReuse]_vars

(***************************************************************************)
(* SpecCopy: copy_attachments_to_row for one row pair, the caches drawn    *)
(* from bounded sets                                                       *)
(***************************************************************************)
\* the cached lists of a source row: at most MaxAtt attachments
AttLists == UNION {{[i \in 1..n |-> Att(AttId(i), names[i])] : names \in [1..n -> AttNames]} : n \in 0..MaxAtt}

\* the cached lists of a target row: one list per set of names
RECURSIVE SetToSeq(_)
SetToSeq(S) == IF S = {} THEN <<>> ELSE LET x == CHOOSE y \in S : TRUE IN <<x>> \o SetToSeq(S \ {x})

NameList(S) == [i \in 1..Cardinality(S) |-> Att(AttId(10 + i), SetToSeq(S)[i])]

CachesOf(row_id, lists) == {EmptyCache} \cup {[r \in {row_id} |-> l] : l \in lists}

InitCopy ==
    /\ pc = "copy_start"
    /\ max_retries \in 0..MaxCopyRetries
    /\ retry_delay = DefaultRetryDelay
    /\ c_caller = "alone"
    /\ c_src = RowId(1)
    /\ c_tgt = RowId(11)
    /\ source_attachment_cache \in CachesOf(c_src, AttLists)
    /\ target_attachment_cache \in CachesOf(c_tgt, {NameList(S) : S \in SUBSET AttNames})
    /\ tgt_att = [r \in {c_tgt} |-> CacheGet(target_attachment_cache, c_tgt)]
    /\ stats = ZeroStats
    /\ staged = {} /\ uploads = <<>>
    /\ file_attachments = <<>> /\ existing_names = {} /\ c_j = 0 /\ copied_count = 0
    /\ file_path = "None" /\ download_url = "None" /\ c_ret = CopyPending
    /\ c_stats0 = ZeroStats /\ requests = 0 /\ ops = <<>> /\ c_failed = FALSE /\ outcomes = <<>>
    /\ KeyIdle
    /\ RetryIdle
    /\ MapIdle
    /\ SyncIdle

NextCopy == CopyStep \/ CopyRetryStep \/ CopyRetryFallThrough

SpecCopy == InitCopy /\ [][NextCopy]_vars

(***************************************************************************)
(* SpecRowMap: _build_row_map applied to every sheet of at most MaxRows    *)
(* rows whose cells are drawn from CellValues                              *)
(***************************************************************************)
CellValues ==
    {NoneValue, IntValue(1), IntValue(2), FloatValue("fin", FALSE, 1, TRUE),
     StrValue(<<" ", "2">>), StrValue(<<"a">>), StrValue(<<"i", "n", "f">>)}

RowCells ==
    {<<>>, <<Cell("other_col", IntValue(2))>>}
    \cup {<<Cell("match_col", v)>> : v \in CellValues}
    \cup {<<Cell("other_col", IntValue(2)), Cell("match_col", IntValue(1))>>,
          <<Cell("match_col", IntValue(1)), Cell("match_col", IntValue(2))>>}

Sheets(n) == {[i \in 1..n |-> Row(RowId(i), c[i])] : c \in [1..n -> RowCells]}

InitRowMap ==
    /\ pc = "bm_loop"
    /\ bm_side = "alone"
    /\ bm_rows \in UNION {Sheets(n) : n \in 0..MaxRows}
    /\ bm_col = "match_col"
    /\ bm_i = 0 /\ row_map = <<>> /\ bm_warnings = <<>> /\ bm_ret = Pending
    /\ max_retries = DefaultMaxRetries /\ retry_delay = DefaultRetryDelay
    /\ KeyIdle
    /\ RetryIdle
    /\ CopyIdle
    /\ SyncIdle

NextRowMap == RowMapStep \/ RowMapReturn

SpecRowMap == InitRowMap /\ [][NextRowMap]_vars

(***************************************************************************)
(* SpecRetry: _retry_operation around an arbitrary unit of work            *)
(***************************************************************************)
InitRetry ==
    /\ pc = "retry_loop"
    /\ max_retries \in (0 - NegRetries)..MaxRetries
    /\ retry_delay \in 1..MaxDelay
    /\ r_op = "work" /\ r_attempt = 0 /\ r_delay = retry_delay /\ r_last = "None"
    /\ r_sleeps = <<>> /\ r_outcomes = <<>> /\ r_ret = Pending
    /\ KeyIdle
    /\ MapIdle
    /\ CopyIdle
    /\ SyncIdle

RetryWork ==
    /\ pc = "retry_loop"
    /\ r_op = "work"
    /\ \E o \in OpOutcomes("work") : RetryStep(o)
    /\ UNCHANGED <<keyVars, cfgVars, mapVars, stats, envVars, cacheVars, copyVars, remoteVars, syncVars>>

RetryWorkFallThrough == RetryFallThrough /\ r_op = "work" /\ UNCHANGED <<keyVars, cfgVars, mapVars, stats, envVars, cacheVars, copyVars, remoteVars, syncVars>>

NextRetry == RetryWork \/ RetryWorkFallThrough

SpecRetry == InitRetry /\ [][NextRetry]_vars

(***************************************************************************)
(* SpecKey: _extract_match_key applied to every value of AllValues         *)
(***************************************************************************)
InitKey ==
    /\ pc = "ek_call"
    /\ ek_value \in AllValues
    /\ ek_ret = NoKey
    /\ max_retries = DefaultMaxRetries /\ retry_delay = DefaultRetryDelay
    /\ RetryIdle
    /\ MapIdle
    /\ CopyIdle
    /\ SyncIdle

ExtractMatchKey ==
    /\ pc = "ek_call"
    /\ ek_ret' = extract_match_key(ek_value)
    /\ pc' = "ek_done"
    /\ UNCHANGED <<ek_value, cfgVars, retryVars, mapVars, stats, envVars, cacheVars, copyVars, remoteVars, syncVars>>

NextKey == ExtractMatchKey

SpecKey == InitKey /\ [][NextKey]_vars

(***************************************************************************)
(* Properties of _retry_operation (checked under SpecRetry)                *)
(***************************************************************************)
\* the failures the specification calls transient
TransientFailures == {"Timeout", "ConnectionError"}

RECURSIVE Pow2(_)
Pow2(n) == IF n <= 0 THEN 1 ELSE 2 * Pow2(n - 1)

AllTransient(outs) == \A i \in 1..Len(outs) : outs[i] \in TransientFailures

RetryDone == pc = "retry_done"

\* C3: a unit of work that fails transiently k < max_retries times and then
\* succeeds is run k+1 times, its result is returned, and the call sleeps
\* exactly k times, the i-th sleep lasting retry_delay * 2^(i-1); the call
\* never gives up on a transient failure while attempts remain.
C3_BackoffThenSuccess ==
    /\ \A i \in 1..Len(r_sleeps) : r_sleeps[i] = retry_delay * Pow2(i - 1)
    /\ (RetryDone /\ AllTransient(r_outcomes)) => Len(r_outcomes) >= max_retries
    /\ \A k \in 0..(max_retries - 1) :
         (/\ RetryDone
          /\ Len(r_outcomes) = k + 1
          /\ r_outcomes[k + 1] = "ok"
          /\ AllTransient(SubSeq(r_outcomes, 1, k)))
         => /\ r_ret = Returned
            /\ r_attempt = k + 1
            /\ Len(r_sleeps) = k

C3_Witness ==
    /\ RetryDone
    /\ max_retries = 3
    /\ r_outcomes = <<"Timeout", "ConnectionError", "ok">>
    /\ r_ret = Returned
    /\ r_sleeps = <<retry_delay, 2 * retry_delay>>

\* C4: with max_retries = N >= 1 and a unit of work that fails transiently
\* every time, the unit of work is run exactly N times, the call sleeps
\* N - 1 times and raises the failure; there is never an (N+1)-th run.
C4_ExhaustedAfterN ==
    /\ max_retries >= 1 => Len(r_outcomes) <= max_retries
    /\ (/\ RetryDone
        /\ max_retries >= 1
        /\ r_outcomes # <<>>
        /\ AllTransient(r_outcomes))
       => /\ Len(r_outcomes) = max_retries
          /\ Len(r_sleeps) = max_retries - 1
          /\ r_ret = Raises(r_outcomes[Len(r_outcomes)])

C4_Witness ==
    /\ RetryDone
    /\ max_retries = 3
    /\ r_outcomes = <<"Timeout", "Timeout", "Timeout">>
    /\ r_ret = Raises("Timeout")

\* C5: a failure that is not transient (such as the HTTP error status that
\* raise_for_status turns into an HTTPError) ends the call at once: it is
\* the last run of the unit of work, it is raised to the caller, and no
\* sleep follows it.
C5_TerminalNotRetried ==
    \A i \in 1..Len(r_outcomes) :
        r_outcomes[i] \notin (TransientFailures \cup {"ok"})
        => /\ i = Len(r_outcomes)
           /\ RetryDone
           /\ r_ret = Raises(r_outcomes[i])
           /\ Len(r_sleeps) < i

(***************************************************************************)
(* Properties of _build_row_map (checked under SpecRowMap)                 *)
(***************************************************************************)
\* row i of bm_rows has a match cell whose value yields the key k
YieldsKey(i, k) ==
    LET mv == MatchValue(bm_rows[i], bm_col)
    IN mv # NoneValue /\ extract_match_key(mv) = KeyResult(k)

\* the rows among the first n that yield k, and the last of them
RowsYielding(n, k) == {i \in 1..n : YieldsKey(i, k)}
LastYielding(n, k) == CHOOSE i \in RowsYielding(n, k) : \A j \in RowsYielding(n, k) : j <= i

\* the processed rows that found their key already mapped
Overwrites == {i \in 1..bm_i : \E k \in DictKeys(row_map) : YieldsKey(i, k) /\ RowsYielding(i - 1, k) # {}}

\* C7: at every step of _build_row_map the row map has one entry per key
\* yielded by a processed row, each key resolves to the last processed row
\* that yields it, and every overwrite logged a warning naming the new and
\* the overwritten row.
C7_LastRowWins ==
    /\ \A a, b \in 1..Len(row_map) : row_map[a].key = row_map[b].key => a = b
    /\ \A a \in 1..Len(row_map) :
         /\ RowsYielding(bm_i, row_map[a].key) # {}
         /\ row_map[a].row = bm_rows[LastYielding(bm_i, row_map[a].key)].id
    /\ Len(bm_warnings) = Cardinality(Overwrites)
    /\ \A i \in Overwrites : \E w \in 1..Len(bm_warnings) :
         /\ YieldsKey(i, bm_warnings[w].key)
         /\ bm_warnings[w].new = bm_rows[i].id
         /\ bm_warnings[w].old = bm_rows[LastYielding(i - 1, bm_warnings[w].key)].id

C7_Witness ==
    /\ pc = "bm_done"
    /\ bm_ret = Returned
    /\ Len(bm_rows) = 3
    /\ bm_warnings = <<[key |-> 2, new |-> RowId(3), old |-> RowId(1)]>>
    /\ Len(row_map) = 2
    /\ DictGet(row_map, 2) = RowId(3)

(***************************************************************************)
(* Properties of _extract_match_key (checked under SpecKey)                *)
(***************************************************************************)
TruncatedKey(neg, ip) == KeyResult(IF neg THEN 0 - ip ELSE ip)

\* float() accepts the string and the result is a number (not NaN)
ParsesAsNumber(s) == ParseFloat(Strip(s)).ok /\ ParseFloat(Strip(s)).cls # "nan"

\* C8: _extract_match_key returns the integer obtained by truncating toward
\* zero for an int or float value and for a string whose trimmed form
\* parses as a number, and returns no key for None, for an empty or
\* whitespace-only string and for a string that does not parse as a number.
C8_KeyOfNumericValue ==
    pc = "ek_done" =>
        /\ ek_value.t = "int" => ek_ret = KeyResult(ek_value.v)
        /\ (ek_value.t = "float" /\ ek_value.cls # "nan")
              => ek_ret = TruncatedKey(ek_value.neg, ek_value.ip)
        /\ (ek_value.t = "str" /\ ParsesAsNumber(ek_value.s))
              => ek_ret = TruncatedKey(ParseFloat(Strip(ek_value.s)).neg,
                                       ParseFloat(Strip(ek_value.s)).ip)
        /\ (ek_value.t = "str" /\ ~ParsesAsNumber(ek_value.s)) => ek_ret.tag = "none"
        /\ ek_value.t = "none" => ek_ret.tag = "none"

(***************************************************************************)
(* Properties of copy_attachments_to_row (checked under SpecCopy)          *)
(***************************************************************************)
CopyDone == pc = "copy_done"

\* the attachments of a list whose name is not in names, in list order
RECURSIVE NewAttachments(_, _)
NewAttachments(list, names) ==
    IF list = <<>> THEN <<>>
    ELSE IF Head(list).name \in names THEN NewAttachments(Tail(list), names)
    ELSE <<Head(list)>> \o NewAttachments(Tail(list), names)

SourceList == CacheGet(source_attachment_cache, c_src)
TargetNames == {CacheGet(target_attachment_cache, c_tgt)[i].name :
                   i \in 1..Len(CacheGet(target_attachment_cache, c_tgt))}

\* C1: when no fetch, download or upload of the call fails and every fresh
\* URL is non-empty, copy_attachments_to_row uploads to the target row
\* exactly the attachments of the source row's cached list whose name is not
\* cached for the target row, counts the others as skipped, and returns the
\* number of attachments it uploaded.
C1_CopiesExactlyNew ==
    (CopyDone /\ ~c_failed) =>
        LET new == NewAttachments(SourceList, TargetNames)
        IN /\ uploads = [i \in 1..Len(new) |->
                            [row |-> c_tgt, name |-> new[i].name, id |-> new[i].id]]
           /\ c_ret = CopyReturned(Len(new))
           /\ stats.attachments_synced = c_stats0.attachments_synced + Len(new)
           /\ stats.attachments_skipped = c_stats0.attachments_skipped + Len(SourceList) - Len(new)
           /\ stats.errors = c_stats0.errors

C1_Witness ==
    /\ CopyDone
    /\ ~c_failed
    /\ SourceList = <<Att(AttId(1), "a.pdf"), Att(AttId(2), "b.png")>>
    /\ TargetNames = {"a.pdf"}
    /\ uploads = <<[row |-> c_tgt, name |-> "b.png", id |-> AttId(2)]>>
    /\ c_ret = CopyReturned(1)

\* C9: when the source cache holds no FILE attachment for the source row (an
\* empty list or no entry), copy_attachments_to_row returns 0, sends no
\* request at all, uploads and stages nothing, and leaves stats unchanged.
C9_EmptySourceNoCalls ==
    (pc # "copy_start" /\ SourceList = <<>>) =>
        /\ CopyDone
        /\ c_ret = CopyReturned(0)
        /\ requests = 0
        /\ stats = c_stats0
        /\ uploads = <<>>
        /\ staged = {}
        /\ r_outcomes = <<>>

C9_Witness ==
    /\ CopyDone
    /\ c_src \notin DOMAIN source_attachment_cache
    /\ TargetNames = {"a.pdf"}
    /\ c_ret = CopyReturned(0)
    /\ requests = 0

C9_WitnessEmptyList ==
    /\ CopyDone
    /\ c_src \in DOMAIN source_attachment_cache
    /\ SourceList = <<>>
    /\ c_ret = CopyReturned(0)

(***************************************************************************)
(* Claims about a whole run of the program (Spec)                          *)
(***************************************************************************)
SyncEnded == pc \in {"main_after_sync", "exited"}
SyncEndedNormally == SyncEnded /\ s_ret.tag = "return"
SyncEndedFatally == SyncEnded /\ fatal_exc # "none"

MatchedKeys == DictKeys(source_map) \cap DictKeys(target_map)
UnmatchedKeys == DictKeys(source_map) \ DictKeys(target_map)
CopyCallSet == {copy_calls[i] : i \in 1..Len(copy_calls)}

\* the number of FILE attachments on the source rows of the pairs that were
\* handed to copy_attachments_to_row
RECURSIVE SourceFilesOf(_)
SourceFilesOf(calls) ==
    IF calls = <<>> THEN 0
    ELSE Len(FileOnly(CacheGet(src_att, Head(calls)[1]))) + SourceFilesOf(Tail(calls))

\* C2: the second of two successive runs uploads no attachment and reports
\* zero newly synced attachments; when it ends normally every FILE attachment
\* of every matched source row was skipped.
C2_SecondRunUploadsNothing ==
    (run = 2) =>
        /\ uploads = <<>>
        /\ stats.attachments_synced = 0
        /\ SyncEndedNormally => stats.attachments_skipped = SourceFilesOf(copy_calls)

\* C6: after a run that ends without a fatal error (a newly constructed
\* AttachmentSyncer, as main builds it), rows_with_matches is the number of
\* keys in both row indexes, rows_without_matches the number of source keys
\* absent from the target index, and copy_attachments_to_row was invoked
\* exactly once for each pair (source_map[k], target_map[k]) of a matched key
\* k and for no other pair.
C6_MatchedPairsOnly ==
    SyncEndedNormally =>
        /\ stats.rows_with_matches = Cardinality(MatchedKeys)
        /\ stats.rows_without_matches = Cardinality(UnmatchedKeys)
        /\ CopyCallSet = {<<DictGet(source_map, k), DictGet(target_map, k)>> : k \in MatchedKeys}
        /\ Len(copy_calls) = Cardinality(MatchedKeys)

C6_Witness ==
    /\ SyncEndedNormally
    /\ source_map = <<[key |-> 1, row |-> 10], [key |-> 2, row |-> 11]>>
    /\ target_map = <<[key |-> 1, row |-> 20]>>
    /\ stats.rows_with_matches = 1
    /\ stats.rows_without_matches = 1
    /\ copy_calls = <<<<10, 20>>>>

\* C10 as stated: when loading a sheet fails or another exception escapes
\* the body of sync_attachments, errors grows by one, the exception is
\* re-raised, and the caller receives the partial stats as the result.
C10_CallerReceivesStats ==
    SyncEndedFatally =>
        /\ stats.errors = 1
        /\ s_ret.exc = fatal_exc
        /\ s_ret.value = stats

\* C10 amended: when loading a sheet fails or another exception escapes the
\* body of sync_attachments, errors grows by exactly one and no other
\* counter changes, the exception is re-raised, the call yields no result
\* (main binds no stats) and the process exits with code 1.
C10_FatalCountedAndRaised ==
    SyncEndedFatally =>
        /\ stats = Bump(ZeroStats, "errors")
        /\ s_ret = SyncRaised(fatal_exc)
        /\ pc = "exited" => exit_code = 1

C10_Witness ==
    /\ pc = "exited"
    /\ fatal_exc = "ApiError"
    /\ source_map = <<>>
    /\ stats.errors = 1
    /\ s_ret.tag = "raise"
    /\ exit_code = 1

(***************************************************************************)
(* Claims about the staging folder and the per-attachment outcomes         *)
(* (SpecCopy)                                                              *)
(***************************************************************************)
\* the step ends the processing of the attachment that reached the download
LeavesDownloadedAttachment ==
    /\ pc \in {"copy_after_download", "copy_after_upload"}
    /\ pc' = "copy_loop"

\* the step tried to remove the staged file and os.remove raised
DeletionFailed ==
    /\ pc = "copy_after_upload"
    /\ file_path # "None"
    /\ file_path \in staged
    /\ file_path \in staged'

\* C11: for every attachment whose processing reached the download step,
\* whatever the outcome (download failed after retries, upload failed, upload
\* succeeded), the staged file of that attachment is not in the staging
\* folder when the next attachment begins, unless the deletion itself failed.
C11_StagedFileRemoved ==
    [][(LeavesDownloadedAttachment /\ ~DeletionFailed)
          => Basename(CurrentAtt.name) \notin staged']_vars

\* copy_attachments_to_row run alone, each step eventually taken: every
\* network call and file operation returns or fails in finite time
SpecCopyLive == InitCopy /\ [][NextCopy]_vars /\ WF_vars(NextCopy)

\* the counters of stats that grew by the outcomes of the call
OutcomesCounted ==
    (stats.attachments_synced - c_stats0.attachments_synced)
    + (stats.attachments_skipped - c_stats0.attachments_skipped)
    + (stats.errors - c_stats0.errors)

AllProcessed == c_j = Len(SourceList) /\ OutcomesCounted = Len(SourceList)

\* C12: copy_attachments_to_row ends, and when it has ended every attachment
\* of the source row's cached list has been processed to one outcome (copied,
\* skipped or errored), whatever failed for the attachments before it.
C12_EveryAttachmentProcessed == <>CopyDone /\ [](CopyDone => AllProcessed)

C12_Witness ==
    /\ CopyDone
    /\ SourceList = <<Att(AttId(1), "a.pdf"), Att(AttId(2), "b.png")>>
    /\ TargetNames = {}
    /\ stats.errors = c_stats0.errors + 1
    /\ uploads = <<[row |-> c_tgt, name |-> "b.png", id |-> AttId(2)]>>
    /\ c_ret = CopyReturned(1)

Range(seq) == {seq[i] : i \in 1..Len(seq)}

\* _retry_operation raised for the get_attachment of the current attachment
FetchFailed == pc = "copy_after_get" /\ r_ret.tag = "raise"

\* C13: when fetching the fresh descriptor of an attachment fails,
\* attachments_skipped grows by one and nothing else of stats changes, no
\* download and no upload has been or is requested for that attachment, and
\* the loop goes on with the next attachment of the list.
C13_FetchFailureSkips ==
    /\ [][FetchFailed =>
            /\ stats' = Bump(stats, "attachments_skipped")
            /\ copied_count' = copied_count
            /\ Range(ops) \subseteq {"get_attachment"}
            /\ ops' = ops /\ uploads' = uploads /\ staged' = staged /\ tgt_att' = tgt_att
            /\ pc' = "copy_loop" /\ c_j' = c_j]_vars
    /\ [][pc = "copy_loop" => (c_j' = c_j + 1 /\ Len(ops') = 0) \/ pc' = AfterCopy]_vars

C13_Witness ==
    /\ pc = "copy_loop"
    /\ max_retries = 2
    /\ outcomes = <<"fetch_failed">>
    /\ ops = <<"get_attachment", "get_attachment">>
    /\ stats.attachments_skipped = c_stats0.attachments_skipped + 1
    /\ stats.errors = c_stats0.errors
    /\ c_j < Len(file_attachments)

\* _retry_operation raised for the download or the upload of the current
\* attachment
TransferFailed ==
    /\ pc \in {"copy_after_download", "copy_after_upload"}
    /\ r_ret.tag = "raise"

LastOutcome == outcomes[Len(outcomes)]

\* C14: when the download or the upload of an attachment fails, errors grows
\* by exactly one and no other counter changes, the copied count and the
\* uploads do not change, and the loop goes on with the next attachment; an
\* attachment whose download failed has had no upload requested.
C14_TransferFailureCounted ==
    /\ [][TransferFailed =>
            /\ stats' = Bump(stats, "errors")
            /\ copied_count' = copied_count
            /\ ops' = ops /\ uploads' = uploads /\ tgt_att' = tgt_att
            /\ pc' = "copy_loop" /\ c_j' = c_j]_vars
    /\ []((pc = "copy_loop" /\ outcomes # <<>>) =>
            /\ Len(outcomes) = c_j
            /\ LastOutcome = "download_failed" => "upload" \notin Range(ops))

C14_Witness ==
    /\ CopyDone
    /\ max_retries = 2
    /\ outcomes = <<"download_failed", "upload_failed">>
    /\ stats.errors = c_stats0.errors + 2
    /\ stats.attachments_synced = c_stats0.attachments_synced
    /\ c_ret = CopyReturned(0)
    /\ uploads = <<>>

(***************************************************************************)
(* SpecCache: the two _build_attachment_cache calls of sync_attachments,   *)
(* for arbitrary lists of row ids                                          *)
(***************************************************************************)
\* the attachments the service holds for a row: nothing, a file, or a link
\* and a file
RemoteLists(i) ==
    {<<>>,
     <<RemoteAtt(AttId(10 * i + 1), "a.pdf", "FILE")>>,
     <<RemoteAtt(AttId(10 * i + 1), "a.pdf", "LINK"), RemoteAtt(AttId(10 * i + 2), "b.png", "FILE")>>}

\* the lists of distinct row ids RowId(first + 1) .. RowId(first + MaxSyncRows)
RowIdLists(first) ==
    {ids \in UNION {[1..n -> {RowId(first + i) : i \in 1..MaxSyncRows}] : n \in 0..MaxSyncRows} :
        \A i, j \in 1..Len(ids) : ids[i] = ids[j] => i = j}

RemoteOf(first) ==
    {f \in [{RowId(first + i) : i \in 1..MaxSyncRows} -> UNION {RemoteLists(i) : i \in 1..MaxSyncRows}] :
        \A i \in 1..MaxSyncRows : f[RowId(first + i)] \in RemoteLists(i)}

InitCache ==
    /\ pc = "cache_loop"
    /\ run = 1
    /\ cb_side = "source" /\ cb_i = 0 /\ attachment_cache = EmptyCache /\ list_calls = <<>>
    /\ matched_source_row_ids \in RowIdLists(0)
    /\ matched_target_row_ids \in {ids \in RowIdLists(10) : Len(ids) = Len(matched_source_row_ids)}
    /\ src_att \in RemoteOf(0)
    /\ tgt_att \in RemoteOf(10)
    /\ src_rows = <<>> /\ tgt_rows = <<>>
    /\ source_map = <<>> /\ target_map = <<>>
    /\ s_i = 0 /\ copy_calls = <<>> /\ fatal_exc = "none" /\ s_ret = SyncPending /\ s_results = <<>>
    /\ exit_code = NoExit
    /\ max_retries = DefaultMaxRetries /\ retry_delay = DefaultRetryDelay
    /\ stats = ZeroStats
    /\ staged = {} /\ uploads = <<>>
    /\ source_attachment_cache = EmptyCache /\ target_attachment_cache = EmptyCache
    /\ c_caller = "none" /\ c_src = 0 /\ c_tgt = 0
    /\ file_attachments = <<>> /\ existing_names = {} /\ c_j = 0 /\ copied_count = 0
    /\ file_path = "None" /\ download_url = "None" /\ c_ret = CopyPending
    /\ c_stats0 = ZeroStats /\ requests = 0 /\ ops = <<>> /\ c_failed = FALSE /\ outcomes = <<>>
    /\ KeyIdle
    /\ RetryIdle
    /\ MapIdle

NextCache == CacheStep \/ CacheReturnSource \/ CacheReturnTarget

SpecCache == InitCache /\ [][NextCache]_vars

(***************************************************************************)
(* Claims about _build_attachment_cache (SpecCache)                        *)
(***************************************************************************)
OnlyFiles(list) == \A i \in 1..Len(list) : list[i].type = "FILE"

\* the rows of the list whose type is FILE, in list order
FilesOf(list) == SelectSeq(list, LAMBDA a : a.type = "FILE")

\* a cache returned for the row ids of a side: one entry per requested row,
\* each the FILE attachments of the row or, when the listing failed, empty
CacheComplete(cache, side, ids) ==
    /\ DOMAIN cache = Range(ids)
    /\ \A r \in DOMAIN cache :
          /\ OnlyFiles(cache[r])
          /\ cache[r] \in {FilesOf(RemoteAttachments(side, r)), <<>>}

CallsOf(side, ids) == [i \in 1..Len(ids) |-> [side |-> side, row |-> ids[i]]]

\* C15: _build_attachment_cache returns an entry for every requested row id;
\* the entry of a row whose listing failed is the empty list, the rows after
\* it are still listed, the failure does not leave the function, and every
\* entry holds FILE attachments only.
C15_CacheEntryForEveryRow ==
    /\ (pc = "cache_loop") =>
          /\ DOMAIN attachment_cache = {CacheRowIds[i] : i \in 1..cb_i}
          /\ \A r \in DOMAIN attachment_cache : OnlyFiles(attachment_cache[r])
    /\ (cb_side = "target") =>
          CacheComplete(source_attachment_cache, "source", matched_source_row_ids)
    /\ (pc = "sync_loop") =>
          /\ CacheComplete(target_attachment_cache, "target", matched_target_row_ids)
          /\ list_calls = CallsOf("source", matched_source_row_ids)
                             \o CallsOf("target", matched_target_row_ids)
          /\ fatal_exc = "none"

C15_Witness ==
    /\ pc = "sync_loop"
    /\ matched_source_row_ids = <<RowId(1), RowId(2)>>
    /\ src_att[RowId(1)] = <<RemoteAtt(AttId(11), "a.pdf", "FILE")>>
    /\ src_att[RowId(2)] = <<RemoteAtt(AttId(21), "a.pdf", "LINK"), RemoteAtt(AttId(22), "b.png", "FILE")>>
    /\ source_attachment_cache[RowId(1)] = <<>>
    /\ source_attachment_cache[RowId(2)] = <<RemoteAtt(AttId(22), "b.png", "FILE")>>

(***************************************************************************)
(* Claims about the caches and the row indexes in a run (Spec)             *)
(***************************************************************************)
\* both caches of the run have been built
CachesBuilt == cb_side = "target" /\ pc \notin {"cache_loop", "exited"}

ListedRows(side) == {list_calls[i].row : i \in {j \in 1..Len(list_calls) : list_calls[j].side = side}}

\* C16: in a run the listing is called exactly once for each matched source
\* row and once for each matched target row, all before the first transfer,
\* for no row of an unmatched key, and never during the transfers; the two
\* caches do not change once they are built.
C16_ListingOncePerMatchedRow ==
    /\ [](/\ pc = "cache_loop" => copy_calls = <<>>
          /\ "list_row_attachments" \notin Range(ops)
          /\ CachesBuilt =>
               /\ ListedRows("source") = {DictGet(source_map, k) : k \in MatchedKeys}
               /\ ListedRows("target") = {DictGet(target_map, k) : k \in MatchedKeys}
               /\ Len(list_calls) = 2 * Cardinality(MatchedKeys))
    /\ [][CachesBuilt =>
            UNCHANGED <<list_calls, source_attachment_cache, target_attachment_cache>>]_vars

C16_Witness ==
    /\ pc = "sync_loop"
    /\ s_i = 2
    /\ source_map = <<[key |-> 1, row |-> 10], [key |-> 2, row |-> 11]>>
    /\ target_map = <<[key |-> 1, row |-> 20]>>
    /\ list_calls = <<[side |-> "source", row |-> 10], [side |-> "target", row |-> 20]>>
    /\ uploads # <<>>

(***************************************************************************)
(* Claims about rows without a key (SpecRowMap, Spec)                      *)
(***************************************************************************)
\* C17: a row whose match cell is missing or holds a value from which no
\* integer key can be derived is left out of the row index and does not make
\* _build_row_map fail: the function returns after it has visited every row.
C17_UnkeyedRowsLeftOut ==
    (pc = "bm_done") => (bm_ret.tag = "return" /\ bm_i = Len(bm_rows))

\* the source rows _build_row_map leaves out: no cell in the match column,
\* an empty cell, or a value from which no key is derived
SkippedSourceRows ==
    {i \in 1..Len(src_rows) :
        \/ MatchCells(src_rows[i], "src_col") = {}
        \/ extract_match_key(MatchValue(src_rows[i], "src_col")).tag = "none"}

\* the keys of the source rows that have one
SourceKeys ==
    {extract_match_key(MatchValue(src_rows[i], "src_col")).key :
        i \in (1..Len(src_rows)) \ SkippedSourceRows}

\* C19 as stated: at the end of a run rows_without_matches includes one
\* unit for each source row the row indexer skipped.
C19_SkippedRowsCountedUnmatched ==
    SyncEndedNormally => stats.rows_without_matches >= Cardinality(SkippedSourceRows)

\* C19 amended: a source row the row indexer skipped is counted in no
\* counter: at the end of a run total_rows_processed is the number of
\* distinct keys of the source rows that have a key, rows_without_matches the
\* number of those keys absent from the target index and rows_with_matches
\* the number of those present in it.
C19_SkippedRowsNotCounted ==
    SyncEndedNormally =>
        /\ stats.total_rows_processed = Cardinality(SourceKeys)
        /\ stats.rows_without_matches = Cardinality(SourceKeys \ DictKeys(target_map))
        /\ stats.rows_with_matches = Cardinality(SourceKeys \cap DictKeys(target_map))

C19_Witness ==
    /\ SyncEndedNormally
    /\ Len(src_rows) = 2
    /\ SkippedSourceRows = {1}
    /\ MatchCells(src_rows[1], "src_col") = {}
    /\ SourceKeys = {1}
    /\ DictKeys(target_map) = {1}
    /\ stats.total_rows_processed = 1
    /\ stats.rows_without_matches = 0

(***************************************************************************)
(* Claims about duplicates and whole-row failures (SpecCopy,               *)
(* SpecCopyDirect)                                                         *)
(***************************************************************************)
\* the loop is about to process an attachment whose name is on the target
NextIsDuplicate ==
    /\ pc = "copy_loop"
    /\ c_j < Len(file_attachments)
    /\ file_attachments[c_j + 1].name \in existing_names

\* C20: for a source attachment whose name is in the existing-names set,
\* copy_attachments_to_row sends no request (no get_attachment, no download,
\* no upload), stages no file, and adds one to attachments_skipped and to no
\* other counter.
C20_DuplicateSkippedSilently ==
    /\ [][NextIsDuplicate =>
            /\ stats' = Bump(stats, "attachments_skipped")
            /\ requests' = 0 /\ ops' = <<>>
            /\ UNCHANGED <<staged, uploads, tgt_att, copied_count, retryVars>>
            /\ pc' = "copy_loop" /\ c_j' = c_j + 1]_vars
    /\ []((pc = "copy_loop" /\ outcomes # <<>> /\ LastOutcome = "duplicate")
             => (ops = <<>> /\ requests = 0))

C20_Witness ==
    /\ pc = "copy_loop"
    /\ Len(file_attachments) = 2
    /\ outcomes = <<"duplicate">>
    /\ c_j = 1
    /\ stats = Bump(c_stats0, "attachments_skipped")
    /\ ops = <<>>
    /\ staged = {}

(***************************************************************************)
(* SpecCopyDirect: copy_attachments_to_row called without caches           *)
(* (source_attachment_cache = None, target_attachment_cache = None)        *)
(***************************************************************************)
\* lines 413-415: the except clause of the outer try statement
OnRowFailure_Silent(st) == st

OnRowFailure(st) == Bump(st, "errors")

\* lines 306-337 without caches: the source row is listed (lines 314-322);
\* when the listing raises, the outer handler counts an error and the
\* function returns copied_count.  Otherwise the names on the target are
\* listed by _get_existing_attachment_names, which returns the empty set
\* when its listing raises.
CopyDirectStart ==
    /\ pc = "copy_direct_start"
    /\ copied_count' = 0
    /\ c_stats0' = stats
    /\ c_j' = 0
    /\ file_path' = "None"
    /\ download_url' = "None"
    /\ \E listed \in BOOLEAN :
         IF ~listed
         THEN /\ stats' = OnRowFailure(stats)
              /\ c_failed' = TRUE
              /\ outcomes' = <<"row_failed">>
              /\ requests' = 1
              /\ ops' = <<"list_row_attachments">>
              /\ c_ret' = CopyReturned(copied_count')
              /\ pc' = AfterCopy
              /\ UNCHANGED <<file_attachments, existing_names>>
         ELSE /\ file_attachments' = FileOnly(CacheGet(src_att, c_src))
              /\ c_failed' = FALSE
              /\ outcomes' = <<>>
              /\ UNCHANGED stats
              /\ IF file_attachments' = <<>>
                 THEN /\ c_ret' = CopyReturned(0)
                      /\ pc' = AfterCopy
                      /\ requests' = 1
                      /\ ops' = <<"list_row_attachments">>
                      /\ UNCHANGED existing_names
                 ELSE /\ \E target_listed \in BOOLEAN :
                            existing_names' =
                                IF target_listed
                                THEN {a.name : a \in Range(FileOnly(CacheGet(tgt_att, c_tgt)))}
                                ELSE {}
                      /\ requests' = 2
                      /\ ops' = <<"list_row_attachments", "list_row_attachments">>
                      /\ c_ret' = CopyPending
                      /\ pc' = "copy_loop"
    /\ UNCHANGED <<c_caller, c_src, c_tgt, tgt_att, staged, uploads, cacheVars, retryVars,
                   keyVars, cfgVars, mapVars, remoteVars, syncVars>>

InitCopyDirect ==
    /\ pc = "copy_direct_start"
    /\ max_retries \in 1..MaxCopyRetries
    /\ retry_delay = DefaultRetryDelay
    /\ c_caller = "alone" /\ c_src = RowId(1) /\ c_tgt = RowId(11)
    /\ src_att \in {[r \in {c_src} |-> l] : l \in RemoteLists(1)}
    /\ tgt_att \in {[r \in {c_tgt} |-> l] : l \in RemoteLists(1)}
    /\ source_attachment_cache = EmptyCache /\ target_attachment_cache = EmptyCache
    /\ stats = ZeroStats
    /\ staged = {} /\ uploads = <<>>
    /\ file_attachments = <<>> /\ existing_names = {} /\ c_j = 0 /\ copied_count = 0
    /\ file_path = "None" /\ download_url = "None" /\ c_ret = CopyPending
    /\ c_stats0 = ZeroStats /\ requests = 0 /\ ops = <<>> /\ c_failed = FALSE /\ outcomes = <<>>
    /\ run = 0 /\ src_rows = <<>> /\ tgt_rows = <<>>
    /\ source_map = <<>> /\ target_map = <<>>
    /\ matched_source_row_ids = <<>> /\ matched_target_row_ids = <<>>
    /\ cb_side = "none" /\ cb_i = 0 /\ attachment_cache = EmptyCache /\ list_calls = <<>>
    /\ s_i = 0 /\ copy_calls = <<>> /\ fatal_exc = "none" /\ s_ret = SyncPending /\ s_results = <<>>
    /\ exit_code = NoExit
    /\ KeyIdle
    /\ RetryIdle
    /\ MapIdle

NextCopyDirect == CopyDirectStart \/ CopyStep \/ CopyRetryStep

SpecCopyDirect == InitCopyDirect /\ [][NextCopyDirect]_vars

\* the outer handler of copy_attachments_to_row has run in this call
RowFailed == "row_failed" \in Range(outcomes)

FetchReturned == pc = "copy_after_get" /\ r_ret.tag = "return"

\* the step begins the download of the current attachment
DownloadBegins == r_op # "download" /\ r_op' = "download"

\* C21: when the fresh descriptor carries an absent, empty or
\* whitespace-only URL, the attachment is counted as skipped, not as an
\* error, and neither a download nor an upload is requested for it; a
\* download begins only with the non-empty URL of a get_attachment call that
\* has just returned for the same attachment.
C21_InvalidUrlSkipped ==
    /\ [][(FetchReturned /\ download_url' \in {"None", "", " "}) =>
            /\ stats' = Bump(stats, "attachments_skipped")
            /\ ops' = ops /\ Range(ops) = {"get_attachment"}
            /\ uploads' = uploads /\ staged' = staged /\ tgt_att' = tgt_att
            /\ pc' = "copy_loop" /\ c_j' = c_j]_vars
    /\ [][DownloadBegins =>
            /\ FetchReturned
            /\ download_url' \notin {"None", "", " "}
            /\ ops # <<>> /\ ops[Len(ops)] = "get_attachment"
            /\ c_j' = c_j /\ file_attachments' = file_attachments]_vars
    /\ []("download" \in Range(ops) =>
            /\ ops[1] = "get_attachment"
            /\ download_url \notin {"None", "", " "})

C21_Witness ==
    /\ pc = "copy_loop"
    /\ outcomes = <<"copied", "invalid_url">>
    /\ download_url = " "
    /\ ops = <<"get_attachment">>
    /\ stats.attachments_skipped = c_stats0.attachments_skipped + 1
    /\ stats.errors = c_stats0.errors
    /\ Len(uploads) = 1

\* the (source row, target row) pairs of the matched keys, in the order of
\* source_map
PairList ==
    LET m == MatchedEntries(source_map, target_map)
    IN [i \in 1..Len(m) |-> <<m[i].row, DictGet(target_map, m[i].key)>>]

IsPrefix(s, t) == Len(s) <= Len(t) /\ \A i \in 1..Len(s) : s[i] = t[i]

RECURSIVE IsSubseq(_, _)
IsSubseq(s, t) ==
    IF s = <<>> THEN TRUE
    ELSE IF t = <<>> THEN FALSE
    ELSE IF Head(s) = Head(t) THEN IsSubseq(Tail(s), Tail(t))
    ELSE IsSubseq(s, Tail(t))

\* the attachments the loop of line 340 has taken in the k-th call of
\* copy_attachments_to_row, in the order of the source row's cached list
TakenBy(k) ==
    LET list == CacheGet(source_attachment_cache, copy_calls[k][1])
        n == IF k < Len(copy_calls) THEN Len(list)
             ELSE IF pc = "copy_start" THEN 0 ELSE c_j
    IN [i \in 1..n |-> [row |-> copy_calls[k][2], name |-> list[i].name, id |-> list[i].id]]

\* the attachments taken so far by the calls 1..k, call after call
RECURSIVE TakenUpTo(_)
TakenUpTo(k) == IF k = 0 THEN <<>> ELSE TakenUpTo(k - 1) \o TakenBy(k)

\* an attachment is between the head of the loop and its outcome
InAttachment == pc \in {"retry_loop", "copy_after_get", "copy_after_download", "copy_after_upload"}

\* C22: the row pairs are handed to copy_attachments_to_row in the order of
\* the source row index, and the uploads of the run are made in the order of
\* the attachments taken so far: pair after pair and, within a pair, in the
\* order of the source row's cached list.  An attachment is taken only when
\* every attachment before it has its outcome and no request of it is
\* pending, and a pair is taken only when the call for the pair before it
\* has returned.
C22_SequentialInOrder ==
    /\ [](IsPrefix(copy_calls, PairList))
    /\ [](IsSubseq(uploads, TakenUpTo(Len(copy_calls))))
    /\ []((pc = "copy_loop" => Len(outcomes) = c_j) /\ (InAttachment => Len(outcomes) = c_j - 1))
    /\ [][c_j' # c_j =>
            \/ pc = "copy_start" /\ c_j' = 0
            \/ pc = "main_start" /\ c_j' = 0
            \/ pc = "copy_loop" /\ c_j' = c_j + 1 /\ Len(outcomes) = c_j /\ r_op = "none"]_vars
    /\ [][copy_calls' # copy_calls =>
            \/ pc = "main_start"
            \/ /\ pc = "sync_loop"
               /\ copy_calls' = Append(copy_calls, PairList[Len(copy_calls) + 1])
               /\ copy_calls # <<>> => c_ret.tag = "return"]_vars

C22_Witness ==
    /\ pc = "exited"
    /\ Len(copy_calls) = 2
    /\ Len(uploads) = 2
    /\ uploads[1].row = copy_calls[1][2]
    /\ uploads[2].row = copy_calls[2][2]

C22_WitnessWithinRow ==
    /\ pc = "exited"
    /\ Len(copy_calls) = 1
    /\ uploads = <<[row |-> copy_calls[1][2], name |-> "a.pdf", id |-> AttId(11)],
                   [row |-> copy_calls[1][2], name |-> "b.png", id |-> AttId(12)]>>

(***************************************************************************)
(* Claims about what _retry_operation propagates (SpecRetry)               *)
(***************************************************************************)
\* the call gave up on a failure of the class the except clause of line 147
\* retries: the last execution of the unit of work raised it
GaveUpOnRetryable ==
    /\ RetryDone
    /\ r_outcomes # <<>>
    /\ IsRetryable(r_outcomes[Len(r_outcomes)])

\* the call ended on a failure of another class, raised at once
EndedOnTerminal ==
    /\ RetryDone
    /\ r_outcomes # <<>>
    /\ r_outcomes[Len(r_outcomes)] \notin RequestExceptions \cup {"ok"}

\* C23 as stated: when _retry_operation gives up after a transient failure
\* on its last allowed attempt, what it propagates carries an
\* exhausted-retries tag: it is not the bare failure of the unit of work.
C23_ExhaustionTagged ==
    GaveUpOnRetryable => r_ret \notin {[tag |-> "raise", exc |-> e] : e \in ExcKinds}

\* C23 amended: when _retry_operation gives up after a transient failure on
\* its last allowed attempt, it propagates the failure of that attempt
\* itself, unchanged and without a tag; the caller can tell it from a
\* failure that was never retried by its class only.
C23_ExhaustionPropagatesFailure ==
    /\ GaveUpOnRetryable =>
          /\ r_ret = [tag |-> "raise", exc |-> r_outcomes[Len(r_outcomes)]]
          /\ r_ret.exc \in RequestExceptions
          /\ Len(r_outcomes) = max_retries
    /\ EndedOnTerminal =>
          /\ r_ret = [tag |-> "raise", exc |-> r_outcomes[Len(r_outcomes)]]
          /\ r_ret.exc \notin RequestExceptions

C23_Witness ==
    /\ RetryDone
    /\ max_retries = 2
    /\ r_outcomes = <<"ConnectionError", "Timeout">>
    /\ r_sleeps = <<retry_delay>>
    /\ r_ret = [tag |-> "raise", exc |-> "Timeout"]

(***************************************************************************)
(* Claims about the stats of successive calls (SpecReuse)                  *)
(***************************************************************************)
\* the second sync_attachments call on the AttachmentSyncer has returned
SecondCallReturned == Len(s_results) = 2 /\ s_results[2].tag = "return"

\* C24: the stats returned by a sync_attachments call count the events of
\* that call only: the result of a second call on the same AttachmentSyncer
\* has one processed row per entry of the source row index, one matched row
\* per matched key, and as many synced attachments as the call uploaded.
C24_StatsOfThisRunOnly ==
    SecondCallReturned =>
        /\ s_results[2].value.total_rows_processed = Len(source_map)
        /\ s_results[2].value.rows_with_matches = Cardinality(MatchedKeys)
        /\ s_results[2].value.rows_without_matches = Cardinality(UnmatchedKeys)
        /\ s_results[2].value.attachments_synced = Len(uploads)

(***************************************************************************)
(* Claims about duplicate uploads in a run (Spec)                          *)
(***************************************************************************)
\* the uploads of the run made to the target row
UploadsTo(row_id) == {i \in 1..Len(uploads) : uploads[i].row = row_id}

\* the attachments the target row held when the run started: the uploads of
\* the run were appended to them
InitialTarget(row_id) ==
    SubSeq(CacheGet(tgt_att, row_id), 1,
           Len(CacheGet(tgt_att, row_id)) - Cardinality(UploadsTo(row_id)))

InitialFileNames(row_id) ==
    {FileOnly(InitialTarget(row_id))[i].name : i \in 1..Len(FileOnly(InitialTarget(row_id)))}

\* C25: in every run, also when listing a target row failed while the cache
\* was built, no attachment is uploaded to a target row that held a FILE
\* attachment of the same name when the run started.
C25_NoUploadOfExistingName ==
    \A i \in 1..Len(uploads) : uploads[i].name \notin InitialFileNames(uploads[i].row)

\* C26: within one run at most one attachment of a given name is uploaded to
\* a given target row, also when the source row's list holds several FILE
\* attachments of that name.
C26_OneUploadPerName ==
    \A i, j \in 1..Len(uploads) :
        (uploads[i].row = uploads[j].row /\ uploads[i].name = uploads[j].name) => i = j

(***************************************************************************)
(* Claims about the counters (SpecCopy, Spec)                              *)
(***************************************************************************)
AttachmentCounters == {"attachments_synced", "attachments_skipped", "errors"}

\* the step gives the attachment being processed its outcome
ReachesOutcome == Len(outcomes') = Len(outcomes) + 1

\* C27: each attachment copy_attachments_to_row processes increases exactly
\* one of attachments_synced, attachments_skipped and errors, by exactly
\* one, and no other counter; when the call has returned, the three counters
\* have grown together by the length of the source row's list, and the value
\* returned is the growth of attachments_synced.
C27_OneCounterPerAttachment ==
    /\ [][ReachesOutcome =>
            \E c \in AttachmentCounters : stats' = [stats EXCEPT ![c] = stats[c] + 1]]_vars
    /\ [][~ReachesOutcome => stats' = stats]_vars
    /\ [](pc # "copy_start" => OutcomesCounted = Len(outcomes))
    /\ [](CopyDone =>
            /\ OutcomesCounted = Len(SourceList)
            /\ c_ret = CopyReturned(stats.attachments_synced - c_stats0.attachments_synced)
            /\ c_ret.value = Len(uploads))

C27_Witness ==
    /\ CopyDone
    /\ outcomes = <<"copied", "download_failed">>
    /\ stats.attachments_synced = 1
    /\ stats.errors = 1
    /\ stats.attachments_skipped = 0
    /\ c_ret = CopyReturned(1)

StatCounters == DOMAIN ZeroStats

\* C28: in a run of the program (a newly constructed AttachmentSyncer, its
\* counters at 0), between two iterations of the row loop of sync_attachments
\* and at its end, total_rows_processed = rows_with_matches + rows_without_matches
\* and it is the number of source_map entries the loop has taken; at a
\* normal end it is the number of entries of the source row index; no
\* counter of stats ever decreases.
C28_RowCountersAddUp ==
    /\ [](stats.total_rows_processed = stats.rows_with_matches + stats.rows_without_matches)
    /\ [](pc = "sync_loop" => stats.total_rows_processed = s_i)
    /\ [](SyncEndedNormally => stats.total_rows_processed = Len(source_map))
    /\ [][\A c \in StatCounters : stats'[c] >= stats[c]]_vars

C28_Witness ==
    /\ pc = "sync_loop"
    /\ Len(source_map) = 2
    /\ s_i = 1
    /\ stats.total_rows_processed = 1
    /\ stats.rows_with_matches = 1
    /\ c_ret.tag = "return"

\* on an AttachmentSyncer that is used again the row counters still add up
\* and never decrease
RowCountersAddUpOnReuse ==
    /\ [](stats.total_rows_processed = stats.rows_with_matches + stats.rows_without_matches)
    /\ [][\A c \in StatCounters : stats'[c] >= stats[c]]_vars

(***************************************************************************)
(* Claims about the exit code of main() (SpecExit)                         *)
(***************************************************************************)
Exited == pc = "exited"

\* C29: when sync_attachments returns its stats to main, the process exits
\* with code 0 if and only if errors = 0 or attachments_synced +
\* attachments_skipped > 0, and with code 1 otherwise, whatever the error
\* rate; the branch for errors without operations is never taken.  When
\* sync_attachments raises, the exit code is 1.
C29_ExitCode ==
    /\ (Exited /\ s_ret.tag = "return") =>
          /\ exit_code \in {0, 1}
          /\ exit_code = 0 <=>
                \/ s_ret.value.errors = 0
                \/ s_ret.value.attachments_synced + s_ret.value.attachments_skipped > 0
          /\ ExitBranch(s_ret.value) # "no_operations"
    /\ (Exited /\ s_ret.tag = "raise") => exit_code = 1
    /\ ~Exited => exit_code = NoExit

\* errors at a rate of 2 in 3, above the threshold, and the exit code is 0
C29_Witness ==
    /\ Exited
    /\ s_ret.tag = "return"
    /\ s_ret.value.errors = 2
    /\ s_ret.value.attachments_synced = 1
    /\ s_ret.value.attachments_skipped = 0
    /\ ExitBranch(s_ret.value) = "progress"
    /\ exit_code = 0

\* errors at a rate of 1 in 13, below the threshold
C29_WitnessLowRate ==
    /\ Exited
    /\ s_ret.value.errors = 1
    /\ s_ret.value.attachments_synced = 12
    /\ ExitBranch(s_ret.value) = "low_error_rate"
    /\ exit_code = 0

C29_WitnessRaised ==
    /\ Exited
    /\ s_ret.tag = "raise"
    /\ exit_code = 1

(***************************************************************************)
(* Claims about termination (SpecLive)                                     *)
(***************************************************************************)
\* the number of requests for op sent for the attachment being processed
Attempts(op) == Cardinality({i \in 1..Len(ops) : ops[i] = op})

\* C30: when every network call and file operation returns or fails in
\* finite time, sync_attachments ends (it returns stats or raises), and at
\* every moment of the run each of get_attachment, download and upload has
\* been attempted at most max_retries times for the attachment being
\* processed.
C30_TerminatesBoundedAttempts ==
    /\ <>SyncEnded
    /\ [](\A op \in {"get_attachment", "download", "upload"} : Attempts(op) <= max_retries)
    /\ [](Len(r_outcomes) <= max_retries)

\* a run that ended after an upload failed on each of its two attempts
C30_Witness ==
    /\ SyncEndedNormally
    /\ max_retries = 2
    /\ outcomes = <<"upload_failed">>
    /\ stats.errors = 1
    /\ Len(copy_calls) = 1

\* an attachment for which every operation took all its attempts
C30_WitnessAllAttempts ==
    /\ pc = "copy_loop"
    /\ max_retries = 2
    /\ ops = <<"get_attachment", "get_attachment", "download", "download", "upload", "upload">>
    /\ LastOutcome = "upload_failed"

(***************************************************************************)
(* Claims about max_retries below 1 (SpecRetry)                            *)
(***************************************************************************)
\* C31: for every max_retries the constructor accepts, 0 and negative values
\* included, _retry_operation has executed the unit of work at least once
\* when it ends, and what it raises to its caller is a failure that an
\* execution of the unit of work raised.
C31_WorkRunsAtLeastOnce ==
    RetryDone =>
        /\ Len(r_outcomes) >= 1
        /\ r_ret.tag = "raise" => r_ret.exc \in Range(r_outcomes)

====
